---- MODULE Spec2Model ----
(***************************************************************************)
(* Authorization and credential lifecycle of the Pulsar Console backend:   *)
(* the resource pattern matcher, the role/permission store and its         *)
(* permission resolution, the API token service and the session store.     *)
(*                                                                         *)
(* Strings are sequences of one-character strings; Python's None is the    *)
(* value None below, which is no string over any alphabet used here.       *)
(***************************************************************************)
EXTENDS Integers, Sequences, FiniteSets, Bags, TLC

\* ------------------------------------------------------------------------
\* Bounds of the model
\* ------------------------------------------------------------------------
MaxPatLen == 4
MaxPathLen == 3

VARIABLES
    m_pattern,      \* matcher call: self.resource_pattern
    m_path,         \* matcher call: resource_path
    m_pc,           \* matcher call: "call" before it ran, "done" after
    m_result,       \* matcher call: the value returned
    users,          \* table users: user id -> [is_active, is_global_admin]
    permissions,    \* table permissions: set of <<action, resource_level>>
    roles,          \* table roles: set of [id, environment_id, name, is_system]
    rolePerms,      \* table role_permissions: bag of [role_id, permission, resource_pattern]
    userRoles,      \* table user_roles: set of [user_id, role_id]
    chk,            \* the last permission check and the value it returned
    roleRes,        \* the last update or deletion of a role and what it returned
    now,            \* datetime.now(timezone.utc), in days
    dbEnforcesLength, \* the database refuses a string longer than its column
    apiTokens,      \* table api_tokens
    tokenSerial,    \* number of API tokens generated so far
    tokRes,         \* the last API token request and what it returned
    revokedOk,      \* ids of the tokens for which revoke_token returned True
    sessions,       \* table sessions
    sessionSerial,  \* number of sessions created so far
    sessRes,        \* the last session lookup and what it returned
    txns,           \* worker -> the replace-all request it is serving
    txnRes,         \* the last replace-all request that ended, and how
    environments,   \* table environments: name -> [is_active], committed rows
    envTxns,        \* worker -> the environment request it is serving
    jwtIssued,      \* the signed tokens created so far, with their kind
    authState,      \* the last verification of a signed token and its outcome
    hasSecretAttr,  \* class Environment has pulsar_token_secret_key_encrypted
    envSecret,      \* environment -> its pulsar_token_secret_key_encrypted
    secretGiven,    \* environment -> the secret last set and not removed
    secRes,         \* the last call about a signing secret and its outcome
    epCaller,       \* the user whose requests the endpoints are serving
    epRes,          \* the last request that an endpoint's dependency refused
    rbacEnabled,    \* env.rbac_enabled of the active environment
    sessReq,        \* the last request that presented the token of a session
    rbacReq,        \* the last request through StrictRBACMiddleware
    authReq         \* the last request through AuthMiddleware, with its headers

matcherVars == <<m_pattern, m_path, m_pc, m_result>>
rbacVars == <<permissions, roles, rolePerms, userRoles, chk, roleRes>>
tokenVars == <<dbEnforcesLength, apiTokens, tokenSerial, tokRes, revokedOk>>
sessionVars == <<sessions, sessionSerial, sessRes>>
txnVars == <<txns, txnRes>>
envVars == <<environments, envTxns>>
jwtVars == <<jwtIssued, authState>>
secretVars == <<hasSecretAttr, envSecret, secretGiven, secRes>>
epVars == <<epCaller, epRes>>
mwVars == <<rbacEnabled, sessReq, rbacReq, authReq>>
lateVars == <<secretVars, epVars, mwVars>>
restVars == <<txnVars, envVars, jwtVars, lateVars>>
vars == <<matcherVars, restVars, users, rbacVars, now, tokenVars, sessionVars>>
earlyVars == <<matcherVars, txnVars, envVars, jwtVars, users, rbacVars, now, tokenVars, sessionVars>>
notSecretVars == <<earlyVars, epVars, mwVars>>
notEpVars == <<earlyVars, secretVars, mwVars>>
notMwVars == <<earlyVars, secretVars, epVars>>

None == <<"None">>

\* Characters of the patterns and paths the matcher is exercised on.
Chars == {"a", "/", "*"}

SeqsUpTo(S, n) == UNION {[1..k -> S] : k \in 0..n}

PatternStrings == SeqsUpTo(Chars, MaxPatLen)
PathStrings == SeqsUpTo(Chars, MaxPathLen)

Range(s) == {s[i] : i \in 1..Len(s)}

\* ------------------------------------------------------------------------
\* Python string primitives
\* ------------------------------------------------------------------------
startswith(s, p) == Len(p) <= Len(s) /\ SubSeq(s, 1, Len(p)) = p

endswith(s, suf) ==
    Len(suf) <= Len(s) /\ SubSeq(s, Len(s) - Len(suf) + 1, Len(s)) = suf

\* s[:-n] for n <= len(s)
DropLast(s, n) == SubSeq(s, 1, Len(s) - n)

\* fnmatch.fnmatch(name, pat): "*" matches any run of characters, "?" any
\* single character, every other character itself; the match is anchored
\* at both ends.
RECURSIVE fnmatch(_, _)
fnmatch(name, pat) ==
    IF pat = <<>> THEN name = <<>>
    ELSE IF Head(pat) = "*"
         THEN fnmatch(name, Tail(pat))
              \/ (name # <<>> /\ fnmatch(Tail(name), pat))
    ELSE IF Head(pat) = "?"
         THEN name # <<>> /\ fnmatch(Tail(name), Tail(pat))
    ELSE name # <<>> /\ Head(name) = Head(pat)
         /\ fnmatch(Tail(name), Tail(pat))

\* ------------------------------------------------------------------------
\* RolePermission.matches_resource
\* ------------------------------------------------------------------------
matches_resource_no_slash(resource_pattern, resource_path) ==
    IF resource_pattern = None THEN TRUE
    ELSE IF resource_pattern = resource_path THEN TRUE
    ELSE IF endswith(resource_pattern, <<"/", "*">>)
         THEN startswith(resource_path, DropLast(resource_pattern, 2))
    ELSE IF endswith(resource_pattern, <<"/", "*", "*">>)
         THEN startswith(resource_path, DropLast(resource_pattern, 3))
    ELSE IF "*" \in Range(resource_pattern)
         THEN fnmatch(resource_path, resource_pattern)
    ELSE FALSE

matches_resource_deep_slash(resource_pattern, resource_path) ==
    IF resource_pattern = None THEN TRUE
    ELSE IF resource_pattern = resource_path THEN TRUE
    ELSE IF endswith(resource_pattern, <<"/", "*">>)
         THEN startswith(resource_path, DropLast(resource_pattern, 2) \o <<"/">>)
              \/ resource_path = DropLast(resource_pattern, 2)
    ELSE IF endswith(resource_pattern, <<"/", "*", "*">>)
         THEN startswith(resource_path, DropLast(resource_pattern, 3) \o <<"/">>)
              \/ resource_path = DropLast(resource_pattern, 3)
    ELSE IF "*" \in Range(resource_pattern)
         THEN fnmatch(resource_path, resource_pattern)
    ELSE FALSE

matches_resource_null_denies(resource_pattern, resource_path) ==
    IF resource_pattern = None THEN FALSE
    ELSE IF resource_pattern = resource_path THEN TRUE
    ELSE IF endswith(resource_pattern, <<"/", "*">>)
         THEN startswith(resource_path, DropLast(resource_pattern, 2) \o <<"/">>)
              \/ resource_path = DropLast(resource_pattern, 2)
    ELSE IF endswith(resource_pattern, <<"/", "*", "*">>)
         THEN startswith(resource_path, DropLast(resource_pattern, 3))
    ELSE IF "*" \in Range(resource_pattern)
         THEN fnmatch(resource_path, resource_pattern)
    ELSE FALSE

matches_resource(resource_pattern, resource_path) ==
    IF resource_pattern = None THEN TRUE
    ELSE IF resource_pattern = resource_path THEN TRUE
    ELSE IF endswith(resource_pattern, <<"/", "*">>)
         THEN startswith(resource_path, DropLast(resource_pattern, 2) \o <<"/">>)
              \/ resource_path = DropLast(resource_pattern, 2)
    ELSE IF endswith(resource_pattern, <<"/", "*", "*">>)
         THEN startswith(resource_path, DropLast(resource_pattern, 3))
    ELSE IF "*" \in Range(resource_pattern)
         THEN fnmatch(resource_path, resource_pattern)
    ELSE FALSE

\* ------------------------------------------------------------------------
\* Role and permission store
\* ------------------------------------------------------------------------
MaxGrants == 2          \* role_permissions rows added to custom roles
MaxCustomRoles == 2     \* custom roles created

Envs == {"e1", "e2"}
Users == {"u1", "u2"}

\* The literal paths and patterns of the checks.
ACME_STAR == <<"a", "c", "m", "e", "/", "*">>
ACME_PROD_ORDERS ==
    <<"a", "c", "m", "e", "/", "p", "r", "o", "d", "/", "o", "r", "d", "e", "r", "s">>
OTHER_PROD_ORDERS ==
    <<"o", "t", "h", "e", "r", "/", "p", "r", "o", "d", "/", "o", "r", "d", "e", "r", "s">>

\* Inputs of the requests.
SeedEnvs == {"e1"}
CustomRoleNames == {"ops"}
AssignInputs ==
    { <<"u1", "e1", "viewer">>, <<"u1", "e1", "ops">>,
      <<"u1", "e2", "ops">>, <<"u2", "e2", "ops">> }
GrantPerms == {<<"write", "topic">>}
GrantPatterns == {None, ACME_STAR}
CheckPerms == {<<"write", "topic">>, <<"read", "topic">>}
CheckPaths == {None, ACME_PROD_ORDERS, OTHER_PROD_ORDERS}

PERMISSION_DEFINITIONS ==
    { <<"produce", "topic">>, <<"consume", "topic">>,
      <<"functions", "namespace">>, <<"sources", "namespace">>,
      <<"sinks", "namespace">>, <<"packages", "namespace">>,
      <<"admin", "cluster">>, <<"read", "cluster">>,
      <<"admin", "tenant">>, <<"read", "tenant">>, <<"write", "tenant">>,
      <<"admin", "namespace">>, <<"read", "namespace">>, <<"write", "namespace">>,
      <<"admin", "topic">>, <<"read", "topic">>, <<"write", "topic">> }

SystemRoleNames == {"superuser", "admin", "operator", "developer", "viewer"}

\* DEFAULT_ROLES[name]["permissions"]: (action, resource_level, resource_pattern)
DEFAULT_ROLES(name) ==
    CASE name = "superuser" -> { <<"admin", "cluster", None>> }
      [] name = "admin" -> { <<"admin", "tenant", None>>, <<"admin", "namespace", None>> }
      [] name = "operator" ->
            { <<"read", "cluster", None>>, <<"read", "tenant", None>>,
              <<"read", "namespace", None>>, <<"read", "topic", None>>,
              <<"write", "topic", None>>, <<"produce", "topic", None>>,
              <<"consume", "topic", None>> }
      [] name = "developer" ->
            { <<"read", "cluster", None>>, <<"read", "tenant", None>>,
              <<"read", "namespace", None>>, <<"read", "topic", None>>,
              <<"produce", "topic", None>>, <<"consume", "topic", None>> }
      [] name = "viewer" ->
            { <<"read", "cluster", None>>, <<"read", "tenant", None>>,
              <<"read", "namespace", None>>, <<"read", "topic", None>> }

\* Primary keys: the store draws a fresh UUID for every row, one that no row
\* has and no row refers to. The first role seeded under a name in an
\* environment is SystemRoleId; a custom role gets the first free serial.
UsedRoleIds ==
    {r.id : r \in roles} \cup {rp.role_id : rp \in BagToSet(rolePerms)}
        \cup {ur.role_id : ur \in userRoles}
SystemRoleId(env, name) == <<"sys", env, name>>
NewSystemRoleId(env, name) ==
    IF SystemRoleId(env, name) \notin UsedRoleIds THEN SystemRoleId(env, name)
    ELSE <<"sys", env, name,
           CHOOSE k \in 1..(Cardinality(UsedRoleIds) + 1) :
               <<"sys", env, name, k>> \notin UsedRoleIds>>
CustomRoles == {r \in roles : ~r.is_system}
CustomRoleId ==
    <<"usr", CHOOSE n \in 1..(Cardinality(UsedRoleIds) + 1) :
                 <<"usr", n>> \notin UsedRoleIds>>

RoleRow(id, env, name, sys) ==
    [id |-> id, environment_id |-> env, name |-> name, is_system |-> sys]
RolePermissionRow(role_id, permission, pattern) ==
    [role_id |-> role_id, permission |-> permission, resource_pattern |-> pattern]
UserRoleRow(user_id, role_id) == [user_id |-> user_id, role_id |-> role_id]

\* What no request against the role and permission store touches.
notRbacVars == <<matcherVars, restVars, now, tokenVars, sessionVars>>

\* The tables a query reads.
Store ==
    [permissions |-> permissions, roles |-> roles,
     rolePerms |-> rolePerms, userRoles |-> userRoles]

NoRoleResult == [op |-> "none", role_id |-> <<>>, ok |-> FALSE]

NoCheck ==
    [done |-> FALSE, user_id |-> "", environment_id |-> "", action |-> "",
     resource_level |-> "", resource_path |-> None,
     role_allowed |-> FALSE, allowed |-> FALSE]

\* The SELECT of UserRoleRepository.check_permission: role_permissions joined
\* to user_roles, roles and permissions, filtered by user, environment,
\* action and resource level.
role_permissions_any_action(db, user_id, environment_id, action, resource_level) ==
    {rp \in BagToSet(db.rolePerms) :
        /\ \E ur \in db.userRoles :
              /\ ur.role_id = rp.role_id
              /\ ur.user_id = user_id
              /\ \E r \in db.roles :
                    r.id = ur.role_id /\ r.environment_id = environment_id
        /\ \E p \in db.permissions :
              p = rp.permission /\ p[2] = resource_level}

role_permissions_any_environment(db, user_id, environment_id, action, resource_level) ==
    {rp \in BagToSet(db.rolePerms) :
        /\ \E ur \in db.userRoles :
              /\ ur.role_id = rp.role_id
              /\ ur.user_id = user_id
              /\ \E r \in db.roles : r.id = ur.role_id
        /\ \E p \in db.permissions :
              p = rp.permission /\ p[1] = action /\ p[2] = resource_level}

role_permissions_any_role(db, user_id, environment_id, action, resource_level) ==
    {rp \in BagToSet(db.rolePerms) :
        /\ \E ur \in db.userRoles :
              /\ ur.user_id = user_id
              /\ \E r \in db.roles :
                    r.id = ur.role_id /\ r.environment_id = environment_id
        /\ \E p \in db.permissions :
              p = rp.permission /\ p[1] = action /\ p[2] = resource_level}

select_role_permissions(db, user_id, environment_id, action, resource_level) ==
    {rp \in BagToSet(db.rolePerms) :
        /\ \E ur \in db.userRoles :
              /\ ur.role_id = rp.role_id
              /\ ur.user_id = user_id
              /\ \E r \in db.roles :
                    r.id = ur.role_id /\ r.environment_id = environment_id
        /\ \E p \in db.permissions :
              p = rp.permission /\ p[1] = action /\ p[2] = resource_level}

\* UserRoleRepository.check_permission
check_permission_ignores_path(db, user_id, environment_id, action, resource_level, resource_path) ==
    LET role_permissions ==
            select_role_permissions(db, user_id, environment_id, action, resource_level)
    IN  role_permissions # {}

check_permission_pathless_needs_match(db, user_id, environment_id, action, resource_level, resource_path) ==
    LET role_permissions ==
            select_role_permissions(db, user_id, environment_id, action, resource_level)
    IN  IF role_permissions = {} THEN FALSE
        ELSE \E role_perm \in role_permissions :
                matches_resource(role_perm.resource_pattern, resource_path)

UserRoleRepository_check_permission(db, user_id, environment_id, action, resource_level, resource_path) ==
    LET role_permissions ==
            select_role_permissions(db, user_id, environment_id, action, resource_level)
    IN  IF role_permissions = {} THEN FALSE
        ELSE IF resource_path = None THEN TRUE
        ELSE \E role_perm \in role_permissions :
                matches_resource(role_perm.resource_pattern, resource_path)

RolePermissionRepository_check_permission_any_action(db, role_id, action, resource_level, resource_path) ==
    LET role_permissions ==
            {rp \in BagToSet(db.rolePerms) :
                /\ rp.role_id = role_id
                /\ \E p \in db.permissions :
                      p = rp.permission /\ p[2] = resource_level}
    IN  IF role_permissions = {} THEN FALSE
        ELSE IF resource_path = None THEN TRUE
        ELSE \E role_perm \in role_permissions :
                matches_resource(role_perm.resource_pattern, resource_path)

\* RolePermissionRepository.check_permission: the role_permissions of the
\* role joined to permissions, filtered by action and resource level.
RolePermissionRepository_check_permission(db, role_id, action, resource_level, resource_path) ==
    LET role_permissions ==
            {rp \in BagToSet(db.rolePerms) :
                /\ rp.role_id = role_id
                /\ \E p \in db.permissions :
                      p = rp.permission /\ p[1] = action /\ p[2] = resource_level}
    IN  IF role_permissions = {} THEN FALSE
        ELSE IF resource_path = None THEN TRUE
        ELSE \E role_perm \in role_permissions :
                matches_resource(role_perm.resource_pattern, resource_path)

\* RBACService.check_permission: a global admin is allowed everything, any
\* other user is resolved through the user's roles.
RBACService_check_permission_no_bypass(db, user_id, environment_id, action, resource_level, resource_path) ==
    UserRoleRepository_check_permission(
        db, user_id, environment_id, action, resource_level, resource_path)

RBACService_check_permission(db, user_id, environment_id, action, resource_level, resource_path) ==
    IF user_id \in DOMAIN users /\ users[user_id].is_global_admin THEN TRUE
    ELSE UserRoleRepository_check_permission(
            db, user_id, environment_id, action, resource_level, resource_path)

\* ------------------------------------------------------------------------
\* Requests against the role and permission store. Each is one request: the
\* repository calls and the commit that ends the request's transaction.
\* ------------------------------------------------------------------------

\* seed_rbac_data(session, environment_id)
SeedRbacData(env) ==
    LET missing == {n \in SystemRoleNames :
                        ~\E r \in roles : r.environment_id = env /\ r.name = n}
        newRoles == {RoleRow(NewSystemRoleId(env, n), env, n, TRUE) : n \in missing}
        newRows == UNION {
            {RolePermissionRow(NewSystemRoleId(env, n), <<t[1], t[2]>>, t[3]) :
                t \in {d \in DEFAULT_ROLES(n) :
                          <<d[1], d[2]>> \in permissions \cup PERMISSION_DEFINITIONS}} :
            n \in missing}
    IN  /\ permissions' = permissions \cup PERMISSION_DEFINITIONS
        /\ roles' = roles \cup newRoles
        /\ rolePerms' = rolePerms (+) SetToBag(newRows)
        /\ chk' = NoCheck
        /\ UNCHANGED <<users, roleRes, userRoles>>
        /\ UNCHANGED notRbacVars

\* RoleRepository.create(environment_id, name): a role that is not a system
\* role; the store refuses a second role of the same name in the environment.
CreateRole(env, name) ==
    /\ CustomRoleId[2] <= MaxCustomRoles
    /\ ~\E r \in roles : r.environment_id = env /\ r.name = name
    /\ roles' = roles \cup {RoleRow(CustomRoleId, env, name, FALSE)}
    /\ chk' = NoCheck
    /\ UNCHANGED <<users, roleRes, permissions, rolePerms, userRoles>>
    /\ UNCHANGED notRbacVars

\* RolePermissionRepository.add_permission_to_role. uq_role_perm_resource
\* refuses a second row of the same (role, permission, pattern); SQL compares
\* NULL patterns as distinct, so it never refuses a row whose pattern is NULL.
AddPermissionToRole(role_id, permission, pattern) ==
    LET row == RolePermissionRow(role_id, permission, pattern)
        custom == {rp \in BagToSet(rolePerms) :
                      ~\E r \in roles : r.is_system /\ r.id = rp.role_id}
        granted == BagCardinality([rp \in custom |-> rolePerms[rp]])
    IN  /\ granted < MaxGrants
        /\ \E r \in roles : r.id = role_id
        /\ permission \in permissions
        /\ pattern # None => ~BagIn(row, rolePerms)
        /\ rolePerms' = rolePerms (+) SetToBag({row})
        /\ chk' = NoCheck
        /\ UNCHANGED <<users, roleRes, permissions, roles, userRoles>>
        /\ UNCHANGED notRbacVars

\* RolePermissionRepository.remove_permission_from_role: scalar_one_or_none
\* raises when more than one row matches, and then nothing is deleted.
RemovePermissionFromRole(role_id, permission, pattern) ==
    LET row == RolePermissionRow(role_id, permission, pattern)
    IN  /\ BagIn(row, rolePerms)
        /\ CopiesIn(row, rolePerms) = 1
        /\ rolePerms' = rolePerms (-) SetToBag({row})
        /\ chk' = NoCheck
        /\ UNCHANGED <<users, roleRes, permissions, roles, userRoles>>
        /\ UNCHANGED notRbacVars

\* RBACService.update_role(role_id, name): None for a role that does not
\* exist, a ValueError for a name another role of the environment has, and
\* otherwise the new name; is_system is not among the fields it sets.
UpdateRole(role_id, name) ==
    LET hit == {r \in roles : r.id = role_id}
        taken == \E r \in hit : \E q \in roles \ hit :
                     q.environment_id = r.environment_id /\ q.name = name
        done == hit # {} /\ ~taken
    IN  /\ roles' = IF done
                    THEN (roles \ hit) \cup {[r EXCEPT !.name = name] : r \in hit}
                    ELSE roles
        /\ roleRes' = [op |-> "update", role_id |-> role_id, ok |-> done]
        /\ chk' = NoCheck
        /\ UNCHANGED <<users, permissions, rolePerms, userRoles>>
        /\ UNCHANGED notRbacVars

\* RBACService.delete_role(role_id) through RoleRepository.delete_non_system:
\* False for a role that does not exist or is a system role, otherwise a
\* DELETE of the row. role_permissions.role_id and user_roles.role_id are
\* declared ON DELETE CASCADE, which a database that enforces foreign keys
\* applies and SQLite, as the tests configure it, does not.
DeleteRole_any_role(role_id, cascades) ==
    LET hit == {r \in roles : r.id = role_id}
    IN  /\ roles' = roles \ hit
        /\ rolePerms' = IF hit # {} /\ cascades
                        THEN [rp \in {x \in BagToSet(rolePerms) : x.role_id # role_id}
                                |-> rolePerms[rp]]
                        ELSE rolePerms
        /\ userRoles' = IF hit # {} /\ cascades
                        THEN {ur \in userRoles : ur.role_id # role_id}
                        ELSE userRoles
        /\ roleRes' = [op |-> "delete", role_id |-> role_id, ok |-> (hit # {})]
        /\ chk' = NoCheck
        /\ UNCHANGED <<users, permissions>>
        /\ UNCHANGED notRbacVars

DeleteRole(role_id, cascades) ==
    LET hit == {r \in roles : r.id = role_id /\ ~r.is_system}
    IN  /\ roles' = roles \ hit
        /\ rolePerms' = IF hit # {} /\ cascades
                        THEN [rp \in {x \in BagToSet(rolePerms) : x.role_id # role_id}
                                |-> rolePerms[rp]]
                        ELSE rolePerms
        /\ userRoles' = IF hit # {} /\ cascades
                        THEN {ur \in userRoles : ur.role_id # role_id}
                        ELSE userRoles
        /\ roleRes' = [op |-> "delete", role_id |-> role_id, ok |-> (hit # {})]
        /\ chk' = NoCheck
        /\ UNCHANGED <<users, permissions>>
        /\ UNCHANGED notRbacVars

\* UserRoleRepository.assign_role; uq_user_role refuses a second assignment
\* of the same role to the same user.
AssignRole(user_id, role_id) ==
    /\ user_id \in DOMAIN users
    /\ \E r \in roles : r.id = role_id
    /\ UserRoleRow(user_id, role_id) \notin userRoles
    /\ userRoles' = userRoles \cup {UserRoleRow(user_id, role_id)}
    /\ chk' = NoCheck
    /\ UNCHANGED <<users, roleRes, permissions, roles, rolePerms>>
    /\ UNCHANGED notRbacVars

\* UserRoleRepository.remove_role
RemoveRole(user_id, role_id) ==
    /\ UserRoleRow(user_id, role_id) \in userRoles
    /\ userRoles' = userRoles \ {UserRoleRow(user_id, role_id)}
    /\ chk' = NoCheck
    /\ UNCHANGED <<users, roleRes, permissions, roles, rolePerms>>
    /\ UNCHANGED notRbacVars

\* One permission query against the committed store: role_allowed is what
\* UserRoleRepository.check_permission returns for it, allowed is what
\* RBACService.check_permission returns for it.
CheckPermission(user_id, env, action, level, path) ==
    /\ chk' = [done |-> TRUE, user_id |-> user_id, environment_id |-> env,
               action |-> action, resource_level |-> level,
               resource_path |-> path,
               role_allowed |-> UserRoleRepository_check_permission(
                                   Store, user_id, env, action, level, path),
               allowed |-> RBACService_check_permission(
                                   Store, user_id, env, action, level, path)]
    /\ UNCHANGED <<users, roleRes, permissions, roles, rolePerms, userRoles>>
    /\ UNCHANGED notRbacVars

\* A fresh database: the development user of a console without OIDC is the
\* global admin, no environment has been seeded.
RbacInit ==
    /\ users = [u \in Users |->
                  [is_active |-> TRUE, is_global_admin |-> (u = "u2")]]
    /\ permissions = {}
    /\ roles = {}
    /\ rolePerms = EmptyBag
    /\ userRoles = {}
    /\ chk = NoCheck
    /\ roleRes = NoRoleResult

\* ------------------------------------------------------------------------
\* The clock
\* ------------------------------------------------------------------------
MaxTime == 1

ClockInit == now = 0

\* An optional datetime or integer: NoValue is Python's None, Some(v) is v.
NoValue == <<>>
Some(v) == <<v>>

\* ------------------------------------------------------------------------
\* API tokens
\* ------------------------------------------------------------------------
MaxTokens == 2

\* secrets.token_urlsafe(32) is 43 characters long.
TokenRandomLen == 43
\* generate_api_token shows the first 11 characters of the token.
TokenPrefixLen == 11
\* The width of the column api_tokens.token_prefix.
TokenPrefixWidth == 8

\* expires_in_days of a create request: absent, 0, a day ahead.
ExpiresInDays == {NoValue, Some(0), Some(1)}
\* The users that ask for tokens.
TokenOwners == {"u1"}

\* hash_value: the SHA-256 hex digest, which no two of the strings of this
\* model share.
hash_value(value) == <<"sha256">> \o value

\* generate_api_token, the n-th draw of secrets.token_urlsafe being the
\* character n repeated.
generate_api_token(n) ==
    LET full_token == <<"p", "c", "_">> \o [i \in 1..TokenRandomLen |-> n]
    IN  [full_token |-> full_token,
         token_hash |-> hash_value(full_token),
         token_prefix |-> SubSeq(full_token, 1, TokenPrefixLen)]

\* A string that is no token this console ever issued.
UnknownToken == <<"p", "c", "_", "x">>

\* ApiTokenRepository.get_valid_token: the rows with this hash that are not
\* revoked and not expired; token_hash is unique, so at most one.
get_valid_token_ignores_revoked(rows, token_hash, at) ==
    {t \in rows :
        /\ t.token_hash = token_hash
        /\ \/ t.expires_at = NoValue
           \/ t.expires_at # NoValue /\ t.expires_at[1] > at}

get_valid_token(rows, token_hash, at) ==
    {t \in rows :
        /\ t.token_hash = token_hash
        /\ t.is_revoked = FALSE
        /\ \/ t.expires_at = NoValue
           \/ t.expires_at # NoValue /\ t.expires_at[1] > at}

\* BaseRepository.get_by_id on api_tokens
token_by_id(id) == {t \in apiTokens : t.id = id}

NoTokenResult ==
    [op |-> "none", token_id |-> 0, token |-> <<>>, caller |-> "",
     expires_in_days |-> NoValue, ok |-> FALSE, count |-> 0]

\* ApiTokenService.create_token. A user that is missing or inactive gets a
\* ValueError; expires_at is set only when expires_in_days is truthy; the
\* INSERT fails on a database that enforces the width of token_prefix.
CreateToken(user_id, expires_in_days) ==
    LET g == generate_api_token(tokenSerial + 1)
        expires_at == IF expires_in_days = NoValue \/ expires_in_days = Some(0)
                      THEN NoValue
                      ELSE Some(now + expires_in_days[1])
        row == [id |-> tokenSerial + 1, user_id |-> user_id,
                token_hash |-> g.token_hash, token_prefix |-> g.token_prefix,
                expires_at |-> expires_at, last_used_at |-> NoValue,
                is_revoked |-> FALSE]
        stored == /\ user_id \in DOMAIN users
                  /\ users[user_id].is_active
                  /\ ~(dbEnforcesLength /\ Len(g.token_prefix) > TokenPrefixWidth)
    IN  /\ tokenSerial < MaxTokens
        /\ tokenSerial' = tokenSerial + 1
        /\ apiTokens' = IF stored THEN apiTokens \cup {row} ELSE apiTokens
        /\ tokRes' = [op |-> "create", token_id |-> tokenSerial + 1,
                      token |-> g.full_token, caller |-> user_id,
                      expires_in_days |-> expires_in_days,
                      ok |-> stored, count |-> 0]
        /\ UNCHANGED <<dbEnforcesLength, revokedOk>>
        /\ UNCHANGED <<matcherVars, restVars, users, rbacVars, now, sessionVars>>

\* ApiTokenService.validate_token: last_used_at is written as soon as the
\* row is found valid, and the token is accepted when its user exists and is
\* active. The service commits when it accepts; when it refuses, the write
\* of last_used_at stays in the caller's transaction, which the caller
\* commits or rolls back.
ValidateToken_skips_user_check(token, caller_commits) ==
    LET found == get_valid_token(apiTokens, hash_value(token), now)
        touched == {[t EXCEPT !.last_used_at = Some(now)] : t \in found}
    IN  /\ apiTokens' = (apiTokens \ found) \cup touched
        /\ tokRes' = [op |-> "validate", token_id |-> 0, token |-> token,
                      caller |-> "", expires_in_days |-> NoValue,
                      ok |-> (found # {}), count |-> 0]
        /\ UNCHANGED <<dbEnforcesLength, tokenSerial, revokedOk>>
        /\ UNCHANGED <<matcherVars, restVars, users, rbacVars, now, sessionVars>>

ValidateToken(token, caller_commits) ==
    LET found == get_valid_token(apiTokens, hash_value(token), now)
        touched == {[t EXCEPT !.last_used_at = Some(now)] : t \in found}
        accepted == \E t \in found :
                        t.user_id \in DOMAIN users /\ users[t.user_id].is_active
    IN  /\ apiTokens' = IF accepted \/ caller_commits
                        THEN (apiTokens \ found) \cup touched
                        ELSE apiTokens
        /\ tokRes' = [op |-> "validate", token_id |-> 0, token |-> token,
                      caller |-> "", expires_in_days |-> NoValue,
                      ok |-> accepted, count |-> 0]
        /\ UNCHANGED <<dbEnforcesLength, tokenSerial, revokedOk>>
        /\ UNCHANGED <<matcherVars, restVars, users, rbacVars, now, sessionVars>>

\* ApiTokenService.revoke_token(token_id, user_id)
RevokeToken_any_caller(token_id, user_id) ==
    LET owned == token_by_id(token_id)
    IN  /\ apiTokens' = (apiTokens \ owned)
                          \cup {[t EXCEPT !.is_revoked = TRUE] : t \in owned}
        /\ tokRes' = [op |-> "revoke", token_id |-> token_id, token |-> <<>>,
                      caller |-> user_id, expires_in_days |-> NoValue,
                      ok |-> (owned # {}), count |-> 0]
        /\ revokedOk' = IF owned # {} THEN revokedOk \cup {token_id}
                        ELSE revokedOk
        /\ UNCHANGED <<dbEnforcesLength, tokenSerial>>
        /\ UNCHANGED <<matcherVars, restVars, users, rbacVars, now, sessionVars>>

RevokeToken(token_id, user_id) ==
    LET owned == {t \in token_by_id(token_id) : t.user_id = user_id}
    IN  /\ apiTokens' = (apiTokens \ owned)
                          \cup {[t EXCEPT !.is_revoked = TRUE] : t \in owned}
        /\ tokRes' = [op |-> "revoke", token_id |-> token_id, token |-> <<>>,
                      caller |-> user_id, expires_in_days |-> NoValue,
                      ok |-> (owned # {}), count |-> 0]
        /\ revokedOk' = IF owned # {} THEN revokedOk \cup {token_id}
                        ELSE revokedOk
        /\ UNCHANGED <<dbEnforcesLength, tokenSerial>>
        /\ UNCHANGED <<matcherVars, restVars, users, rbacVars, now, sessionVars>>

\* ApiTokenService.revoke_all_user_tokens(user_id)
RevokeAllUserTokens(user_id) ==
    LET hit == {t \in apiTokens : t.user_id = user_id /\ t.is_revoked = FALSE}
    IN  /\ apiTokens' = (apiTokens \ hit)
                          \cup {[t EXCEPT !.is_revoked = TRUE] : t \in hit}
        /\ tokRes' = [op |-> "revoke_all", token_id |-> 0, token |-> <<>>,
                      caller |-> user_id, expires_in_days |-> NoValue,
                      ok |-> TRUE, count |-> Cardinality(hit)]
        /\ UNCHANGED <<dbEnforcesLength, tokenSerial, revokedOk>>
        /\ UNCHANGED <<matcherVars, restVars, users, rbacVars, now, sessionVars>>

\* ApiTokenService.delete_token(token_id, user_id)
DeleteToken(token_id, user_id) ==
    LET owned == {t \in token_by_id(token_id) : t.user_id = user_id}
    IN  /\ apiTokens' = apiTokens \ owned
        /\ tokRes' = [op |-> "delete", token_id |-> token_id, token |-> <<>>,
                      caller |-> user_id, expires_in_days |-> NoValue,
                      ok |-> (owned # {}), count |-> 0]
        /\ UNCHANGED <<dbEnforcesLength, tokenSerial, revokedOk>>
        /\ UNCHANGED <<matcherVars, restVars, users, rbacVars, now, sessionVars>>

\* A day passes.
TickTokens ==
    /\ now < MaxTime
    /\ now' = now + 1
    /\ UNCHANGED <<matcherVars, restVars, users, rbacVars, tokenVars, sessionVars>>

\* The tests run on SQLite, which stores a string of any length; the
\* configured default is PostgreSQL, which does not.
AnyDatabase == dbEnforcesLength \in BOOLEAN
LenientDatabase == dbEnforcesLength = FALSE

\* No token has been issued.
TokenInit ==
    /\ apiTokens = {}
    /\ tokenSerial = 0
    /\ tokRes = NoTokenResult
    /\ revokedOk = {}

\* ------------------------------------------------------------------------
\* Sessions
\* ------------------------------------------------------------------------
MaxSessions == 2
\* The days the session store is followed for.
MaxSessionTime == 2

\* The lifetime of a new session, in days.
SessionLifetimes == {1, 2}

\* The access token of the n-th session.
access_token(n) == <<"jwt", n>>

\* Session.is_expired and Session.is_valid
Session_is_expired(s, at) == at > s.expires_at
Session_is_valid(s, at) == ~Session_is_expired(s, at) /\ ~s.is_revoked

\* SessionRepository.get_valid_session
get_valid_session(rows, token_hash, at) ==
    {s \in rows :
        /\ s.access_token_hash = token_hash
        /\ s.is_revoked = FALSE
        /\ s.expires_at > at}

\* The last lookup or cleanup: what it was given, and what it returned.
NoSessionResult == [op |-> "none", token |-> <<>>, found |-> FALSE, count |-> 0]

\* SessionRepository.create: a session of a user, for a new access token.
CreateSession(user_id, lifetime) ==
    /\ sessionSerial < MaxSessions
    /\ user_id \in DOMAIN users
    /\ sessionSerial' = sessionSerial + 1
    /\ sessions' = sessions \cup
          {[id |-> sessionSerial + 1, user_id |-> user_id,
            access_token_hash |-> hash_value(access_token(sessionSerial + 1)),
            expires_at |-> now + lifetime, is_revoked |-> FALSE]}
    /\ sessRes' = NoSessionResult
    /\ UNCHANGED <<matcherVars, restVars, users, rbacVars, now, tokenVars>>

\* SessionRepository.get_valid_session for the access token of a request
GetValidSession(token) ==
    /\ sessRes' = [op |-> "get", token |-> token,
                   found |-> (get_valid_session(
                                 sessions, hash_value(token), now) # {}),
                   count |-> 0]
    /\ UNCHANGED <<sessions, sessionSerial>>
    /\ UNCHANGED <<matcherVars, restVars, users, rbacVars, now, tokenVars>>

\* SessionService.revoke_session
RevokeSession(session_id) ==
    LET hit == {s \in sessions : s.id = session_id}
    IN  /\ hit # {}
        /\ sessions' = (sessions \ hit)
                          \cup {[s EXCEPT !.is_revoked = TRUE] : s \in hit}
        /\ sessRes' = NoSessionResult
        /\ UNCHANGED sessionSerial
        /\ UNCHANGED <<matcherVars, restVars, users, rbacVars, now, tokenVars>>

\* SessionService.revoke_all_user_sessions without except_session_id
RevokeAllUserSessions(user_id) ==
    LET hit == {s \in sessions : s.user_id = user_id /\ s.is_revoked = FALSE}
    IN  /\ hit # {}
        /\ sessions' = (sessions \ hit)
                          \cup {[s EXCEPT !.is_revoked = TRUE] : s \in hit}
        /\ sessRes' = NoSessionResult
        /\ UNCHANGED sessionSerial
        /\ UNCHANGED <<matcherVars, restVars, users, rbacVars, now, tokenVars>>

CleanupExpiredSessions_keeps_expired ==
    LET deleted == {s \in sessions : s.expires_at > now}
    IN  /\ sessions' = sessions \ deleted
        /\ sessRes' = [NoSessionResult EXCEPT !.op = "cleanup_expired",
                                              !.count = Cardinality(deleted)]
        /\ UNCHANGED sessionSerial
        /\ UNCHANGED <<matcherVars, restVars, users, rbacVars, now, tokenVars>>

\* SessionService.cleanup_expired_sessions: the rows that the DELETE of
\* SessionRepository.cleanup_expired matches go, and their number, the
\* rowcount, is returned.
CleanupExpiredSessions ==
    /\ sessions' = {s \in sessions : ~(s.expires_at < now)}
    /\ sessRes' = [NoSessionResult EXCEPT
                      !.op = "cleanup_expired",
                      !.count = Cardinality({s \in sessions : s.expires_at < now})]
    /\ UNCHANGED sessionSerial
    /\ UNCHANGED <<matcherVars, restVars, users, rbacVars, now, tokenVars>>

\* SessionService.cleanup_revoked_sessions, likewise.
CleanupRevokedSessions ==
    /\ sessions' = {s \in sessions : s.is_revoked = FALSE}
    /\ sessRes' = [NoSessionResult EXCEPT
                      !.op = "cleanup_revoked",
                      !.count = Cardinality({s \in sessions : s.is_revoked = TRUE})]
    /\ UNCHANGED sessionSerial
    /\ UNCHANGED <<matcherVars, restVars, users, rbacVars, now, tokenVars>>

\* A day passes.
TickSessions ==
    /\ now < MaxSessionTime
    /\ now' = now + 1
    /\ sessRes' = NoSessionResult
    /\ UNCHANGED <<sessions, sessionSerial>>
    /\ UNCHANGED <<matcherVars, restVars, users, rbacVars, tokenVars>>

SessionInit ==
    /\ sessions = {}
    /\ sessionSerial = 0
    /\ sessRes = NoSessionResult

\* ------------------------------------------------------------------------
\* Users
\* ------------------------------------------------------------------------
\* An administrator deactivates a user.
DeactivateUser(user_id) ==
    /\ user_id \in DOMAIN users
    /\ users[user_id].is_active
    /\ users' = [users EXCEPT ![user_id].is_active = FALSE]
    /\ tokRes' = [NoTokenResult EXCEPT !.op = "deactivate_user",
                                       !.caller = user_id]
    /\ chk' = NoCheck
    /\ UNCHANGED <<dbEnforcesLength, apiTokens, tokenSerial, revokedOk>>
    /\ UNCHANGED <<matcherVars, restVars, permissions, roles, rolePerms, userRoles>>
    /\ UNCHANGED <<roleRes, now, sessionVars>>

\* An administrator deletes a user. Every user_id column that refers to
\* users is declared ON DELETE CASCADE, which a database that enforces
\* foreign keys applies and SQLite, as the tests configure it, does not.
DeleteUser(user_id, cascades) ==
    /\ user_id \in DOMAIN users
    /\ users' = [u \in DOMAIN users \ {user_id} |-> users[u]]
    /\ apiTokens' = IF cascades
                    THEN {t \in apiTokens : t.user_id # user_id}
                    ELSE apiTokens
    /\ sessions' = IF cascades
                   THEN {x \in sessions : x.user_id # user_id}
                   ELSE sessions
    /\ userRoles' = IF cascades
                    THEN {ur \in userRoles : ur.user_id # user_id}
                    ELSE userRoles
    /\ tokRes' = [NoTokenResult EXCEPT !.op = "delete_user",
                                       !.caller = user_id]
    /\ chk' = NoCheck
    /\ sessRes' = NoSessionResult
    /\ UNCHANGED <<dbEnforcesLength, tokenSerial, revokedOk, sessionSerial>>
    /\ UNCHANGED <<matcherVars, restVars, permissions, roles, rolePerms, roleRes, now>>

\* ------------------------------------------------------------------------
\* Replace-all requests and their transactions
\* ------------------------------------------------------------------------
\* The workers that serve requests side by side, each with a database
\* session of its own (get_db).
Workers == {"w1", "w2"}

\* The session of a worker: the request it serves, the statement it has
\* reached, and the rows its uncommitted transaction has deleted and added.
IdleTxn ==
    [op |-> "idle", pc |-> "idle", role_id |-> <<>>, user_id |-> "",
     environment_id |-> "", requested |-> <<>>, todo |-> <<>>,
     deleted_rp |-> EmptyBag, added_rp |-> EmptyBag,
     deleted_ur |-> {}, added_ur |-> {}]

NoTxnResult ==
    [op |-> "none", role_id |-> <<>>, user_id |-> "", requested |-> <<>>,
     replaced |-> 0, committed |-> FALSE]

\* The rows of a role in role_permissions, and of a user in the user_roles
\* of an environment.
RowsOfRole(rp, role_id) ==
    [x \in {y \in BagToSet(rp) : y.role_id = role_id} |-> rp[x]]
RowsOfUser(ur, user_id, env) ==
    {x \in ur : /\ x.user_id = user_id
                /\ \E r \in roles : r.id = x.role_id /\ r.environment_id = env}

\* What a session reads: the committed rows, less the rows it deleted, plus
\* the rows it added.
SessionRolePerms(w) == (rolePerms (-) txns[w].deleted_rp) (+) txns[w].added_rp
SessionUserRoles(w) == (userRoles \ txns[w].deleted_ur) \cup txns[w].added_ur

\* PUT /roles/{role_id}/permissions up to its call of
\* rbac.set_role_permissions; an unknown role is answered 404.
SetRolePermissions(w, role_id, perms) ==
    /\ txns[w].op = "idle"
    /\ \E r \in roles : r.id = role_id
    /\ txns' = [txns EXCEPT ![w] =
                   [IdleTxn EXCEPT !.op = "set_role_permissions",
                                   !.pc = "delete", !.role_id = role_id,
                                   !.requested = perms,
                                   !.todo = perms]]
    /\ UNCHANGED <<matcherVars, lateVars, envVars, jwtVars, txnRes, users, rbacVars, now, tokenVars, sessionVars>>

\* PUT /users/{user_id}/roles up to its call of rbac.set_user_roles.
SetUserRoles(w, user_id, env, role_ids) ==
    /\ txns[w].op = "idle"
    /\ txns' = [txns EXCEPT ![w] =
                   [IdleTxn EXCEPT !.op = "set_user_roles",
                                   !.pc = "delete", !.user_id = user_id,
                                   !.environment_id = env,
                                   !.requested = role_ids,
                                   !.todo = role_ids]]
    /\ UNCHANGED <<matcherVars, lateVars, envVars, jwtVars, txnRes, users, rbacVars, now, tokenVars, sessionVars>>

\* Replace-all requests of one role, or of one user in one environment, are
\* taken one after the other: the DELETE of the second waits for the
\* transaction of the first to end.
Locked(w) ==
    \E v \in Workers \ {w} :
        /\ txns[v].pc = "insert"
        /\ txns[v].op = txns[w].op
        /\ \/ /\ txns[w].op = "set_role_permissions"
              /\ txns[v].role_id = txns[w].role_id
           \/ /\ txns[w].op = "set_user_roles"
              /\ txns[v].user_id = txns[w].user_id
              /\ txns[v].environment_id = txns[w].environment_id

\* The first statement of a replace-all: delete the rows of the role, or of
\* the user in the environment. The store is not written before the commit.
TxnDelete(w) ==
    LET t == txns[w]
        rp == IF t.op = "set_role_permissions"
              THEN RowsOfRole(rolePerms, t.role_id) ELSE EmptyBag
        ur == IF t.op = "set_user_roles"
              THEN RowsOfUser(userRoles, t.user_id, t.environment_id) ELSE {}
    IN  /\ t.pc = "delete"
        /\ ~Locked(w)
        /\ txns' = [txns EXCEPT ![w].pc = "insert",
                                ![w].deleted_rp = rp, ![w].deleted_ur = ur]
        /\ UNCHANGED <<matcherVars, lateVars, envVars, jwtVars, txnRes, users, rbacVars, now, tokenVars, sessionVars>>

\* The next INSERT of a replace-all. The store refuses a row whose
\* permission or role does not exist and a row that uq_role_perm_resource
\* or uq_user_role forbids; the request then fails.
TxnInsert(w) ==
    LET t == txns[w]
        rp == RolePermissionRow(t.role_id, Head(t.todo)[1], Head(t.todo)[2])
        ur == UserRoleRow(t.user_id, Head(t.todo))
    IN  /\ t.pc = "insert"
        /\ t.todo # <<>>
        /\ IF t.op = "set_role_permissions"
           THEN /\ rp.permission \in permissions
                /\ \E r \in roles : r.id = t.role_id
                /\ rp.resource_pattern # None => ~BagIn(rp, SessionRolePerms(w))
                /\ txns' = [txns EXCEPT ![w].todo = Tail(t.todo),
                                        ![w].added_rp = @ (+) SetToBag({rp})]
           ELSE /\ t.user_id \in DOMAIN users
                /\ \E r \in roles : r.id = ur.role_id
                /\ ur \notin SessionUserRoles(w)
                /\ txns' = [txns EXCEPT ![w].todo = Tail(t.todo),
                                        ![w].added_ur = @ \cup {ur}]
        /\ UNCHANGED <<matcherVars, lateVars, envVars, jwtVars, txnRes, users, rbacVars, now, tokenVars, sessionVars>>

\* get_db after the endpoint returned: session.commit() writes the deleted
\* and the added rows to the store in one step.
TxnCommit(w) ==
    LET t == txns[w]
    IN  /\ t.pc = "insert"
        /\ t.todo = <<>>
        /\ rolePerms' = SessionRolePerms(w)
        /\ userRoles' = SessionUserRoles(w)
        /\ txns' = [txns EXCEPT ![w] = IdleTxn]
        /\ txnRes' = [op |-> t.op, role_id |-> t.role_id, user_id |-> t.user_id,
                      requested |-> t.requested,
                      replaced |-> BagCardinality(t.deleted_rp)
                                      + Cardinality(t.deleted_ur),
                      committed |-> TRUE]
        /\ chk' = NoCheck
        /\ UNCHANGED <<matcherVars, lateVars, envVars, jwtVars, users, permissions, roles, roleRes>>
        /\ UNCHANGED <<now, tokenVars, sessionVars>>

\* get_db when the endpoint raised or was cancelled: session.rollback(), or
\* the close of a session that never committed, drops what the transaction
\* deleted and added.
TxnAbort_keeps_partial(w) ==
    LET t == txns[w]
    IN  /\ t.op # "idle"
        /\ rolePerms' = SessionRolePerms(w)
        /\ userRoles' = SessionUserRoles(w)
        /\ txns' = [txns EXCEPT ![w] = IdleTxn]
        /\ txnRes' = [op |-> t.op, role_id |-> t.role_id, user_id |-> t.user_id,
                      requested |-> t.requested,
                      replaced |-> 0, committed |-> FALSE]
        /\ chk' = NoCheck
        /\ UNCHANGED <<matcherVars, lateVars, envVars, jwtVars, users, permissions, roles, roleRes>>
        /\ UNCHANGED <<now, tokenVars, sessionVars>>

TxnAbort(w) ==
    LET t == txns[w]
    IN  /\ t.op # "idle"
        /\ txns' = [txns EXCEPT ![w] = IdleTxn]
        /\ txnRes' = [op |-> t.op, role_id |-> t.role_id, user_id |-> t.user_id,
                      requested |-> t.requested,
                      replaced |-> 0, committed |-> FALSE]
        /\ UNCHANGED <<matcherVars, lateVars, envVars, jwtVars, users, rbacVars, now, tokenVars, sessionVars>>

\* ------------------------------------------------------------------------
\* Environments
\* ------------------------------------------------------------------------
EnvNames == {"dev", "prod"}

\* The environments table of a database that has none.
NoEnvironments == [n \in {} |-> [is_active |-> FALSE]]

\* upgrade() of the migration that adds is_active: every row gets the server
\* default false, then the row created first is set active. The rows of the
\* table are written in the order of their creation.
upgrade(created) ==
    [n \in {created[i] : i \in 1..Len(created)} |->
        [is_active |-> (n = created[1])]]

\* The session of a worker serving set_active(name): the statement it has
\* reached, the rows its UPDATE saw when it started, and the values its
\* uncommitted transaction has written.
IdleEnvTxn ==
    [pc |-> "idle", name |-> "", snapshot |-> {},
     written |-> [n \in {} |-> FALSE]]

ActiveEnvironments == {n \in DOMAIN environments : environments[n].is_active}

\* The rows that the uncommitted transactions of the other sessions wrote.
EnvLockedBy(w) ==
    UNION {DOMAIN envTxns[v].written : v \in Workers \ {w}}

\* EnvironmentRepository.create_with_encryption and the commit of its
\* request: is_active takes the column default, names are unique.
CreateEnvironment(name) ==
    /\ name \notin DOMAIN environments
    /\ environments' = [n \in DOMAIN environments \cup {name} |->
                           IF n = name THEN [is_active |-> FALSE]
                           ELSE environments[n]]
    /\ UNCHANGED <<matcherVars, lateVars, jwtVars, txnVars, envTxns, users, rbacVars, now, tokenVars, sessionVars>>

\* EnvironmentRepository.delete_by_name and the commit of its request; the
\* DELETE waits for a transaction that wrote the row.
DeleteByName(w, name) ==
    /\ envTxns[w].pc = "idle"
    /\ name \in DOMAIN environments
    /\ name \notin EnvLockedBy(w)
    /\ environments' = [n \in DOMAIN environments \ {name} |-> environments[n]]
    /\ UNCHANGED <<matcherVars, lateVars, jwtVars, txnVars, envTxns, users, rbacVars, now, tokenVars, sessionVars>>

\* set_active: env = get_by_name(name); an unknown name returns None.
SetActive(w, name) ==
    /\ envTxns[w].pc = "idle"
    /\ name \in DOMAIN environments
    /\ envTxns' = [envTxns EXCEPT ![w] =
                      [IdleEnvTxn EXCEPT !.pc = "update", !.name = name]]
    /\ UNCHANGED <<matcherVars, lateVars, jwtVars, txnVars, environments, users, rbacVars, now, tokenVars, sessionVars>>

\* set_active: update(Environment).values(is_active=False) starts. The
\* statement works on the rows committed when it starts.
SetActiveUpdateStarts(w) ==
    /\ envTxns[w].pc = "update"
    /\ envTxns' = [envTxns EXCEPT ![w].pc = "updating",
                                  ![w].snapshot = DOMAIN environments]
    /\ UNCHANGED <<matcherVars, lateVars, jwtVars, txnVars, environments, users, rbacVars, now, tokenVars, sessionVars>>

\* set_active: the UPDATE writes is_active = false to the rows it saw that
\* are still there, after waiting for the transactions that wrote them.
SetActiveUpdateRows(w) ==
    LET rows == envTxns[w].snapshot \cap DOMAIN environments
    IN  /\ envTxns[w].pc = "updating"
        /\ rows \cap EnvLockedBy(w) = {}
        /\ envTxns' = [envTxns EXCEPT ![w].pc = "activate",
                                      ![w].written = [n \in rows |-> FALSE]]
        /\ UNCHANGED <<matcherVars, lateVars, jwtVars, txnVars, environments, users, rbacVars, now, tokenVars, sessionVars>>

\* set_active: env.is_active = True and flush, an UPDATE of the row of env
\* by its primary key. A row that is gone fails the flush.
SetActiveFlush(w) ==
    LET t == envTxns[w]
    IN  /\ t.pc = "activate"
        /\ t.name \in DOMAIN environments
        /\ t.name \notin EnvLockedBy(w)
        /\ envTxns' = [envTxns EXCEPT
                          ![w].pc = "commit",
                          ![w].written =
                              [n \in DOMAIN t.written \cup {t.name} |->
                                  IF n = t.name THEN TRUE ELSE t.written[n]]]
        /\ UNCHANGED <<matcherVars, lateVars, jwtVars, txnVars, environments, users, rbacVars, now, tokenVars, sessionVars>>

\* The commit of the request that called set_active.
SetActiveCommit(w) ==
    LET t == envTxns[w]
    IN  /\ t.pc = "commit"
        /\ environments' = [n \in DOMAIN environments |->
                               IF n \in DOMAIN t.written
                               THEN [is_active |-> t.written[n]]
                               ELSE environments[n]]
        /\ envTxns' = [envTxns EXCEPT ![w] = IdleEnvTxn]
        /\ UNCHANGED <<matcherVars, lateVars, jwtVars, txnVars, users, rbacVars, now, tokenVars, sessionVars>>

\* The request that called set_active fails or is cancelled: rollback.
SetActiveAbort(w) ==
    /\ envTxns[w].pc \notin {"idle", "update"}
    /\ envTxns' = [envTxns EXCEPT ![w] = IdleEnvTxn]
    /\ UNCHANGED <<matcherVars, lateVars, jwtVars, txnVars, environments, users, rbacVars, now, tokenVars, sessionVars>>

EnvInit ==
    /\ environments = NoEnvironments
    /\ envTxns = [w \in Workers |-> IdleEnvTxn]

\* ------------------------------------------------------------------------
\* Signed tokens
\* ------------------------------------------------------------------------
MaxJwt == 2
\* expires_delta of the tokens created, in ticks of the clock.
JwtLifetimes == {1, 2}
JwtUsers == {"u1"}

\* A token as presented: whether it parses as a JWT, whether it starts with
\* "pc_", the key that signed it, and the claims of its payload, each absent
\* (NoValue) or present.
NoClaims ==
    [sub |-> NoValue, exp |-> NoValue, iat |-> NoValue, type |-> NoValue,
     jti |-> NoValue]
Jwt(key, claims) ==
    [wellformed |-> TRUE, pc_prefix |-> FALSE, key |-> key, claims |-> claims]
Opaque(pc_prefix) ==
    [wellformed |-> FALSE, pc_prefix |-> pc_prefix, key |-> "", claims |-> NoClaims]

\* jwt.encode(payload, settings.jwt_secret_key, algorithm=...)
jwt_encode(payload) == Jwt("jwt_secret_key", payload)

\* create_access_token(user_id, expires_delta)
create_access_token(user_id, expires_delta) ==
    jwt_encode([NoClaims EXCEPT !.sub = Some(user_id),
                                !.exp = Some(now + expires_delta),
                                !.iat = Some(now),
                                !.type = Some("access")])

\* create_refresh_token(user_id, expires_delta): the token of the pair
\* returned, jti being the random id drawn for it.
create_refresh_token(user_id, expires_delta, jti) ==
    jwt_encode([NoClaims EXCEPT !.sub = Some(user_id),
                                !.exp = Some(now + expires_delta),
                                !.iat = Some(now),
                                !.type = Some("refresh"),
                                !.jti = Some(jti)])

\* jwt.decode(token, settings.jwt_secret_key, algorithms=[...]): the error it
\* raises, "" when it returns the payload. No claim is required; exp is
\* verified when present.
jwt_decode_error(token) ==
    IF ~token.wellformed THEN "DecodeError"
    ELSE IF token.key # "jwt_secret_key" THEN "InvalidSignatureError"
    ELSE IF token.claims.exp # NoValue /\ token.claims.exp[1] <= now
         THEN "ExpiredSignatureError"
    ELSE ""

\* TokenPayload(**payload): sub, exp, iat and type are required fields, a
\* payload without one of them raises ValidationError.
TokenPayload_raises(payload) ==
    \/ payload.sub = NoValue
    \/ payload.exp = NoValue
    \/ payload.iat = NoValue
    \/ payload.type = NoValue

\* The outcome of a call: the value returned (NoValue is None, Some(payload)
\* a TokenPayload) or an exception that leaves the call.
Returned(value) == [raised |-> FALSE, value |-> value]
Raised == [raised |-> TRUE, value |-> NoValue]

\* decode_token(token): ExpiredSignatureError and InvalidTokenError, the
\* base of every error of jwt.decode, are caught; nothing else is.
decode_token(token) ==
    IF jwt_decode_error(token) # "" THEN Returned(NoValue)
    ELSE IF TokenPayload_raises(token.claims) THEN Raised
    ELSE Returned(Some(token.claims))

verify_access_token_any_type(token) == decode_token(token)

\* verify_access_token(token)
verify_access_token(token) ==
    LET payload == decode_token(token)
    IN  IF payload.raised THEN Raised
        ELSE IF payload.value # NoValue /\ payload.value[1].type = Some("access")
             THEN payload
        ELSE Returned(NoValue)

\* verify_refresh_token(token)
verify_refresh_token(token) ==
    LET payload == decode_token(token)
    IN  IF payload.raised THEN Raised
        ELSE IF payload.value # NoValue /\ payload.value[1].type = Some("refresh")
             THEN payload
        ELSE Returned(NoValue)

\* AuthMiddleware._validate_token(token): (auth_type, user_id)
validate_token(token) ==
    LET payload == verify_access_token(token)
    IN  IF payload.raised THEN Raised
        ELSE IF payload.value # NoValue
             THEN Returned(<<Some("jwt"), payload.value[1].sub>>)
        ELSE IF token.pc_prefix THEN Returned(<<Some("api_token"), NoValue>>)
        ELSE Returned(<<NoValue, NoValue>>)

\* What the last request through the middleware, or the last call of a
\* verification function, was given and did.
NoAuth ==
    [op |-> "none", token |-> Opaque(FALSE), raised |-> FALSE, valid |-> FALSE,
     user_id |-> NoValue, auth_type |-> NoValue]

\* A login: create_access_token and create_refresh_token hand out a token.
CreateAccessToken(user_id, expires_delta) ==
    /\ Cardinality(jwtIssued) < MaxJwt
    /\ jwtIssued' = jwtIssued \cup
           {[kind |-> "access", token |-> create_access_token(user_id, expires_delta)]}
    /\ UNCHANGED <<matcherVars, lateVars, txnVars, envVars, authState, users, rbacVars, now, tokenVars, sessionVars>>

CreateRefreshToken(user_id, expires_delta) ==
    /\ Cardinality(jwtIssued) < MaxJwt
    /\ jwtIssued' = jwtIssued \cup
           {[kind |-> "refresh",
             token |-> create_refresh_token(user_id, expires_delta,
                                            Cardinality(jwtIssued) + 1)]}
    /\ UNCHANGED <<matcherVars, lateVars, txnVars, envVars, authState, users, rbacVars, now, tokenVars, sessionVars>>

\* A call of decode_token, verify_access_token or verify_refresh_token.
Verify(op, token) ==
    LET r == CASE op = "decode_token" -> decode_token(token)
               [] op = "verify_access_token" -> verify_access_token(token)
               [] op = "verify_refresh_token" -> verify_refresh_token(token)
    IN  /\ authState' = [NoAuth EXCEPT !.op = op, !.token = token,
                                       !.raised = r.raised,
                                       !.valid = (r.value # NoValue)]
        /\ UNCHANGED <<matcherVars, lateVars, txnVars, envVars, jwtIssued, users, rbacVars, now, tokenVars, sessionVars>>

\* AuthMiddleware.dispatch for a request to a path that is not public and
\* that carries the token: request.state is filled when the token gives a
\* user id, and the request is forwarded; an exception of _validate_token
\* leaves dispatch.
Dispatch(token) ==
    LET r == validate_token(token)
        user_id == IF r.raised THEN NoValue ELSE r.value[2]
    IN  /\ authState' = [NoAuth EXCEPT
                            !.op = "dispatch", !.token = token,
                            !.raised = r.raised,
                            !.valid = (user_id # NoValue),
                            !.user_id = user_id,
                            !.auth_type = IF user_id # NoValue
                                          THEN r.value[1] ELSE NoValue]
        /\ UNCHANGED <<matcherVars, lateVars, txnVars, envVars, jwtIssued, users, rbacVars, now, tokenVars, sessionVars>>

JwtInit ==
    /\ jwtIssued = {}
    /\ authState = NoAuth

\* ------------------------------------------------------------------------
\* The signing secret of an environment
\* ------------------------------------------------------------------------
\* The secrets given to set_pulsar_token_secret, the subjects and the
\* expires_in_days given to generate_pulsar_token.
SecretKeys == {"", "k1", "k2"}
Subjects == {"admin"}
PulsarExpiresInDays == {NoValue, Some(0), Some(1)}

\* A str held by the column: a text as it is, or the Fernet token of a text.
Str(text) == [fernet |-> FALSE, text |-> text]
Fernet(text) == [fernet |-> TRUE, text |-> text]

\* encrypt_value(value)
encrypt_value(value) == IF value = "" THEN Str("") ELSE Fernet(value)

\* decrypt_value(encrypted_value): what is no Fernet token raises ValueError.
decrypt_value(encrypted_value) ==
    IF encrypted_value = Str("") THEN Returned("")
    ELSE IF encrypted_value.fernet THEN Returned(encrypted_value.text)
    ELSE Raised

\* create_pulsar_jwt_token(subject, secret_key, expires_in_days)
create_pulsar_jwt_token(subject, secret_key, expires_in_days) ==
    Jwt(secret_key,
        [NoClaims EXCEPT
            !.sub = Some(subject),
            !.iat = Some(now),
            !.exp = IF expires_in_days # NoValue /\ expires_in_days[1] # 0
                    THEN Some(now + expires_in_days[1]) ELSE NoValue])

\* env.pulsar_token_secret_key_encrypted: the value of the column, or
\* AttributeError when class Environment has no such attribute.
Environment_pulsar_token_secret_key_encrypted(env) ==
    IF hasSecretAttr THEN Returned(envSecret[env]) ELSE Raised

\* not value, for a value of type str | None
falsy(value) == value = NoValue \/ value = Some(Str(""))

\* BaseRepository.update(id, pulsar_token_secret_key_encrypted=value) for a
\* row that exists: the attribute is set when the instance has it.
EnvironmentRepository_update(env, value) ==
    IF hasSecretAttr THEN [envSecret EXCEPT ![env] = value] ELSE envSecret

\* What the last call of the service was given and did: the error raised
\* ("" when it returned), the value returned, the token returned.
NoSecretResult ==
    [op |-> "none", env |-> "", error |-> "", returned |-> "",
     token |-> Opaque(FALSE)]

\* generate_pulsar_token(environment_id, subject, expires_in_days)
generate_pulsar_token(env, subject, expires_in_days) ==
    LET field == Environment_pulsar_token_secret_key_encrypted(env)
        secret_key == decrypt_value(field.value[1])
        res == [NoSecretResult EXCEPT !.op = "generate_pulsar_token", !.env = env]
    IN  IF env \notin DOMAIN environments THEN [res EXCEPT !.error = "ValueError"]
        ELSE IF field.raised THEN [res EXCEPT !.error = "AttributeError"]
        ELSE IF falsy(field.value) THEN [res EXCEPT !.error = "ValueError"]
        ELSE IF secret_key.raised THEN [res EXCEPT !.error = "ValueError"]
        ELSE [res EXCEPT !.returned = "token",
                         !.token = create_pulsar_jwt_token(subject, secret_key.value,
                                                           expires_in_days)]

\* can_generate_pulsar_tokens(environment_id)
can_generate_pulsar_tokens(env) ==
    LET field == Environment_pulsar_token_secret_key_encrypted(env)
        res == [NoSecretResult EXCEPT !.op = "can_generate_pulsar_tokens", !.env = env]
    IN  IF env \notin DOMAIN environments THEN [res EXCEPT !.returned = "False"]
        ELSE IF field.raised THEN [res EXCEPT !.error = "AttributeError"]
        ELSE IF falsy(field.value) THEN [res EXCEPT !.returned = "False"]
        ELSE [res EXCEPT !.returned = "True"]

GeneratePulsarToken(env, subject, expires_in_days) ==
    /\ secRes' = generate_pulsar_token(env, subject, expires_in_days)
    /\ UNCHANGED <<notSecretVars, hasSecretAttr, envSecret, secretGiven>>

CanGeneratePulsarTokens(env) ==
    /\ secRes' = can_generate_pulsar_tokens(env)
    /\ UNCHANGED <<notSecretVars, hasSecretAttr, envSecret, secretGiven>>

\* set_pulsar_token_secret(environment_id, secret_key) and its commit.
\* secretGiven keeps, for the claims, the secret of the last call that
\* returned True.
SetPulsarTokenSecret(env, secret_key) ==
    LET res == [NoSecretResult EXCEPT !.op = "set_pulsar_token_secret", !.env = env]
    IN  IF env \notin DOMAIN environments
        THEN /\ secRes' = [res EXCEPT !.returned = "False"]
             /\ UNCHANGED <<notSecretVars, hasSecretAttr, envSecret, secretGiven>>
        ELSE /\ envSecret' = EnvironmentRepository_update(env, Some(encrypt_value(secret_key)))
             /\ secretGiven' = [secretGiven EXCEPT ![env] = Some(secret_key)]
             /\ secRes' = [res EXCEPT !.returned = "True"]
             /\ UNCHANGED <<notSecretVars, hasSecretAttr>>

\* remove_pulsar_token_secret(environment_id) and its commit.
RemovePulsarTokenSecret(env) ==
    LET res == [NoSecretResult EXCEPT !.op = "remove_pulsar_token_secret", !.env = env]
    IN  IF env \notin DOMAIN environments
        THEN /\ secRes' = [res EXCEPT !.returned = "False"]
             /\ UNCHANGED <<notSecretVars, hasSecretAttr, envSecret, secretGiven>>
        ELSE /\ envSecret' = EnvironmentRepository_update(env, NoValue)
             /\ secretGiven' = [secretGiven EXCEPT ![env] = NoValue]
             /\ secRes' = [res EXCEPT !.returned = "True"]
             /\ UNCHANGED <<notSecretVars, hasSecretAttr>>

\* The column is NULL in every row. models/environment.py declares no
\* attribute pulsar_token_secret_key_encrypted.
SecretInit ==
    /\ hasSecretAttr = FALSE
    /\ envSecret = [n \in EnvNames |-> NoValue]
    /\ secretGiven = [n \in EnvNames |-> NoValue]
    /\ secRes = NoSecretResult

\* ------------------------------------------------------------------------
\* The endpoints that manage roles, grants, assignments and the secret
\* ------------------------------------------------------------------------
\* Some user that holds a role named "superuser".
HasSuperuserRole(user_id) ==
    \E ur \in userRoles, r \in roles :
        ur.user_id = user_id /\ r.id = ur.role_id /\ r.name = "superuser"

\* The dependency CurrentSuperuser: the caller is an active user who is
\* elevated, by the global-admin flag or by the superuser role; any other
\* caller is answered 403 before the endpoint runs.
CurrentSuperuser(user_id) ==
    /\ user_id \in DOMAIN users
    /\ users[user_id].is_active
    /\ (users[user_id].is_global_admin \/ HasSuperuserRole(user_id))

\* The last request that a dependency refused.
NoEndpointResult == [endpoint |-> "", caller |-> "", status |-> 0]

Endpoints ==
    { "create_role", "update_role", "delete_role", "add_permission_to_role",
      "remove_permission_from_role", "set_role_permissions",
      "assign_role_to_user", "remove_role_from_user", "set_user_roles",
      "set_pulsar_token_secret", "remove_pulsar_token_secret" }

\* One request is served at a time.
NoRequestInFlight == \A w \in Workers : txns[w].op = "idle"

\* The dependencies of a request of the caller let it through.
Admitted == NoRequestInFlight /\ CurrentSuperuser(epCaller)

\* The requests that follow are sent by this user.
Caller(user_id) ==
    /\ NoRequestInFlight
    /\ epCaller' = user_id
    /\ UNCHANGED <<notEpVars, epRes>>

\* A request to one of the endpoints for which the dependency raises.
Forbidden(endpoint) ==
    /\ NoRequestInFlight
    /\ ~CurrentSuperuser(epCaller)
    /\ epRes' = [endpoint |-> endpoint, caller |-> epCaller, status |-> 403]
    /\ UNCHANGED <<notEpVars, epCaller>>

Endpoint_create_role_any_caller(environment_id, name) ==
    NoRequestInFlight /\ CreateRole(environment_id, name)

\* The endpoints of api/v1/rbac.py, each with current_user: CurrentSuperuser.
Endpoint_create_role(environment_id, name) ==
    Admitted /\ CreateRole(environment_id, name)

Endpoint_update_role(role_id, name) ==
    Admitted /\ UpdateRole(role_id, name)

Endpoint_delete_role(role_id, cascades) ==
    Admitted /\ DeleteRole(role_id, cascades)

Endpoint_add_permission_to_role(role_id, permission, pattern) ==
    Admitted /\ AddPermissionToRole(role_id, permission, pattern)

Endpoint_remove_permission_from_role(role_id, permission, pattern) ==
    Admitted /\ RemovePermissionFromRole(role_id, permission, pattern)

Endpoint_set_role_permissions(w, role_id, perms) ==
    Admitted /\ SetRolePermissions(w, role_id, perms)

Endpoint_assign_role_to_user(user_id, role_id) ==
    Admitted /\ AssignRole(user_id, role_id)

Endpoint_remove_role_from_user(user_id, role_id) ==
    Admitted /\ RemoveRole(user_id, role_id)

Endpoint_set_user_roles(w, user_id, environment_id, role_ids) ==
    Admitted /\ SetUserRoles(w, user_id, environment_id, role_ids)

\* The endpoints of api/v1/tokens.py for the secret of the active
\* environment; without an active environment they answer 400.
Endpoint_set_pulsar_token_secret(secret_key) ==
    /\ Admitted
    /\ \E env \in ActiveEnvironments : SetPulsarTokenSecret(env, secret_key)

Endpoint_remove_pulsar_token_secret ==
    /\ Admitted
    /\ \E env \in ActiveEnvironments : RemovePulsarTokenSecret(env)

EndpointInit ==
    /\ epCaller = "u1"
    /\ epRes = NoEndpointResult

\* ------------------------------------------------------------------------
\* Requests that present the access token of a session
\* ------------------------------------------------------------------------
\* The access token whose hash the row of a session holds: signed at the
\* login for the user of the session, and not expired before the session.
session_access_token(s) ==
    jwt_encode([NoClaims EXCEPT !.sub = Some(s.user_id),
                                !.exp = Some(s.expires_at),
                                !.iat = Some(0),
                                !.type = Some("access")])

\* What the last request that presented the token of a session found: the
\* state of the row and of the token when it came, and the user id that
\* the middleware put in request.state.
NoSessionRequest ==
    [op |-> "none", session_id |-> 0, owner |-> "", revoked |-> FALSE,
     expired |-> FALSE, raised |-> FALSE, user_id |-> NoValue]

\* AuthMiddleware.dispatch for a request with the access token of a session
\* as bearer token: _validate_token decides from the token alone.
PresentSessionToken(session_id) ==
    \E s \in sessions :
        LET token == session_access_token(s)
            r == validate_token(token)
        IN  /\ s.id = session_id
            /\ sessReq' = [op |-> "dispatch", session_id |-> s.id,
                           owner |-> s.user_id, revoked |-> s.is_revoked,
                           expired |-> (jwt_decode_error(token) # ""),
                           raised |-> r.raised,
                           user_id |-> IF r.raised THEN NoValue ELSE r.value[2]]
            /\ UNCHANGED <<notMwVars, rbacEnabled, rbacReq, authReq>>

\* ------------------------------------------------------------------------
\* StrictRBACMiddleware
\* ------------------------------------------------------------------------
\* ROUTE_PERMISSIONS: (method, pattern, action, resource_level). A pattern
\* is written as the segments that follow /api/v1, "+" standing for [^/]+,
\* and as whether it ends in $.
Route(method, segments, anchored, action, resource_level) ==
    [method |-> method, segments |-> segments, anchored |-> anchored,
     action |-> action, resource_level |-> resource_level]

ROUTE_PERMISSIONS ==
    << Route("GET", <<"tenants">>, TRUE, "read", "tenant"),
       Route("GET", <<"tenants", "+">>, TRUE, "read", "tenant"),
       Route("POST", <<"tenants">>, TRUE, "write", "tenant"),
       Route("PUT", <<"tenants", "+">>, TRUE, "write", "tenant"),
       Route("DELETE", <<"tenants", "+">>, TRUE, "admin", "tenant"),
       Route("GET", <<"namespaces">>, TRUE, "read", "namespace"),
       Route("GET", <<"namespaces", "+">>, TRUE, "read", "namespace"),
       Route("GET", <<"tenants", "+", "namespaces">>, TRUE, "read", "namespace"),
       Route("POST", <<"namespaces">>, TRUE, "write", "namespace"),
       Route("PUT", <<"namespaces", "+">>, TRUE, "write", "namespace"),
       Route("DELETE", <<"namespaces", "+">>, TRUE, "admin", "namespace"),
       Route("GET", <<"topics">>, TRUE, "read", "topic"),
       Route("GET", <<"topics", "+">>, TRUE, "read", "topic"),
       Route("POST", <<"topics">>, TRUE, "write", "topic"),
       Route("PUT", <<"topics", "+">>, TRUE, "write", "topic"),
       Route("DELETE", <<"topics", "+">>, TRUE, "admin", "topic"),
       Route("GET", <<"subscriptions">>, FALSE, "read", "topic"),
       Route("POST", <<"subscriptions">>, FALSE, "consume", "topic"),
       Route("DELETE", <<"subscriptions">>, FALSE, "admin", "topic"),
       Route("GET", <<"messages">>, FALSE, "consume", "topic"),
       Route("POST", <<"messages", "peek">>, FALSE, "consume", "topic"),
       Route("POST", <<"messages", "produce">>, FALSE, "produce", "topic"),
       Route("GET", <<"brokers">>, FALSE, "read", "cluster"),
       Route("GET", <<"environment">>, FALSE, "read", "cluster"),
       Route("POST", <<"environment">>, FALSE, "admin", "cluster"),
       Route("PUT", <<"environment">>, FALSE, "admin", "cluster"),
       Route("DELETE", <<"environment">>, FALSE, "admin", "cluster") >>

\* re.match(pattern, path), for a path given by its segments after /api/v1
re_match(route, path) ==
    /\ IF route.anchored THEN Len(path) = Len(route.segments)
       ELSE Len(path) >= Len(route.segments)
    /\ \A i \in 1..Len(route.segments) :
          i <= Len(path) /\ (route.segments[i] = "+" \/ route.segments[i] = path[i])

\* _get_required_permission(method, path): the first entry that matches.
get_required_permission(method, path) ==
    LET hits == {i \in 1..Len(ROUTE_PERMISSIONS) :
                    /\ ROUTE_PERMISSIONS[i].method = method
                    /\ re_match(ROUTE_PERMISSIONS[i], path)}
    IN  IF hits = {} THEN NoValue
        ELSE LET first == CHOOSE i \in hits : \A j \in hits : i <= j
             IN  Some(<<ROUTE_PERMISSIONS[first].action,
                        ROUTE_PERMISSIONS[first].resource_level>>)

\* The id of the environment of a name, as the roles refer to it.
Environment_id(name) == IF name = "dev" THEN "e1" ELSE "e2"

\* What the last request through the middleware was and met: whether an
\* entry matched, whether check_permission was called and what it returned,
\* the status of a response the middleware made itself (0 when it made
\* none), and how many times the request was handed to call_next.
NoStrictRequest ==
    [op |-> "none", user_id |-> NoValue, method |-> "", path |-> <<>>,
     required |-> NoValue, checked |-> FALSE, has_permission |-> FALSE,
     status |-> 0, forwarded |-> 0]

\* StrictRBACMiddleware.dispatch. env.rbac_enabled raises AttributeError
\* when class Environment has no such attribute, and get_active raises when
\* two environments are active; the exception leaves dispatch.
StrictDispatch(user_id, method, path) ==
    LET required == get_required_permission(method, path)
        req == [NoStrictRequest EXCEPT !.op = "dispatch", !.user_id = user_id,
                                       !.method = method, !.path = path]
        matched == [req EXCEPT !.required = required]
        env == CHOOSE n \in ActiveEnvironments : TRUE
        has_permission ==
            RBACService_check_permission(Store, user_id[1], Environment_id(env),
                                         required[1][1], required[1][2], None)
    IN  /\ rbacReq' =
              IF user_id = NoValue THEN [req EXCEPT !.forwarded = 1]
              ELSE IF required = NoValue THEN [matched EXCEPT !.forwarded = 1]
              ELSE IF Cardinality(ActiveEnvironments) > 1
                   THEN [matched EXCEPT !.status = 500]
              ELSE IF ActiveEnvironments = {} THEN [matched EXCEPT !.forwarded = 1]
              ELSE IF rbacEnabled = "AttributeError" THEN [matched EXCEPT !.status = 500]
              ELSE IF rbacEnabled = "False" THEN [matched EXCEPT !.forwarded = 1]
              ELSE IF has_permission
                   THEN [matched EXCEPT !.checked = TRUE, !.has_permission = TRUE,
                                        !.forwarded = 1]
              ELSE [matched EXCEPT !.checked = TRUE, !.status = 403]
        /\ UNCHANGED <<notMwVars, rbacEnabled, sessReq, authReq>>

\* ------------------------------------------------------------------------
\* AuthMiddleware and the credentials of a request
\* ------------------------------------------------------------------------
\* Paths, by their segments.
PUBLIC_PATHS ==
    { <<>>, <<"health">>, <<"ready">>, <<"metrics">>, <<"docs">>, <<"redoc">>,
      <<"openapi.json">>, <<"api", "v1", "auth", "login">>,
      <<"api", "v1", "auth", "callback">>, <<"api", "v1", "auth", "providers">>,
      <<"api", "v1", "auth", "refresh">> }
PUBLIC_PATH_PREFIXES == { <<"api", "v1", "auth">>, <<"static">> }

\* _is_public_path(path)
is_public_path(path) ==
    \/ path \in PUBLIC_PATHS
    \/ \E prefix \in PUBLIC_PATH_PREFIXES :
          /\ Len(path) > Len(prefix)
          /\ SubSeq(path, 1, Len(prefix)) = prefix

\* A request: its path, its Authorization header as scheme and rest, its
\* X-API-Token header and its session cookie, each absent or present.
Request(path, authorization, x_api_token, cookie) ==
    [path |-> path, authorization |-> authorization,
     x_api_token |-> x_api_token, cookie |-> cookie]

\* _extract_token(request)
extract_token(request) ==
    IF request.authorization # NoValue /\ request.authorization[1].scheme = "Bearer"
    THEN Some(request.authorization[1].token)
    ELSE IF request.x_api_token # NoValue THEN request.x_api_token
    ELSE IF request.cookie # NoValue THEN request.cookie
    ELSE NoValue

\* What the last request through AuthMiddleware was, what dispatch left in
\* request.state, whether an exception left dispatch, how many times the
\* request was handed to call_next, and the time of the request.
NoAuthRequest ==
    [op |-> "none", request |-> Request(<<>>, NoValue, NoValue, NoValue),
     at |-> 0, raised |-> FALSE, forwarded |-> 0, user_id |-> NoValue,
     auth_type |-> NoValue]

\* AuthMiddleware.dispatch
AuthDispatch(request) ==
    LET token == extract_token(request)
        r == validate_token(token[1])
        res == [NoAuthRequest EXCEPT !.op = "dispatch", !.request = request,
                                     !.at = now]
    IN  /\ authReq' =
              IF is_public_path(request.path) THEN [res EXCEPT !.forwarded = 1]
              ELSE IF token = NoValue THEN [res EXCEPT !.forwarded = 1]
              ELSE IF r.raised THEN [res EXCEPT !.raised = TRUE]
              ELSE IF r.value[2] # NoValue
                   THEN [res EXCEPT !.forwarded = 1, !.user_id = r.value[2],
                                    !.auth_type = r.value[1]]
              ELSE [res EXCEPT !.forwarded = 1]
        /\ UNCHANGED <<notMwVars, rbacEnabled, sessReq, rbacReq>>

MiddlewareInit ==
    /\ rbacEnabled = "AttributeError"
    /\ sessReq = NoSessionRequest
    /\ rbacReq = NoStrictRequest
    /\ authReq = NoAuthRequest

TxnInit ==
    /\ txns = [w \in Workers |-> IdleTxn]
    /\ txnRes = NoTxnResult

\* The state of what is not the matcher, the stores or the clock.
LateInit == SecretInit /\ EndpointInit /\ MiddlewareInit

RestInit == TxnInit /\ EnvInit /\ JwtInit /\ LateInit

\* ------------------------------------------------------------------------
\* The matcher applied to one pattern and one path
\* ------------------------------------------------------------------------
MatcherIdle ==
    /\ m_pattern = None
    /\ m_path = <<>>
    /\ m_pc = "call"
    /\ m_result = FALSE

MatchesResourceCall ==
    /\ m_pc = "call"
    /\ m_result' = matches_resource(m_pattern, m_path)
    /\ m_pc' = "done"
    /\ UNCHANGED <<m_pattern, m_path, restVars, users, rbacVars, now, tokenVars, sessionVars>>

InitMatch ==
    /\ m_pattern \in PatternStrings \cup {None}
    /\ m_path \in PathStrings
    /\ m_pc = "call"
    /\ m_result = FALSE
    /\ RbacInit /\ ClockInit /\ LenientDatabase /\ TokenInit /\ SessionInit /\ RestInit

NextMatch == MatchesResourceCall

SpecMatch == InitMatch /\ [][NextMatch]_vars

\* ------------------------------------------------------------------------
\* The role and permission store under its requests
\* ------------------------------------------------------------------------
Init ==
    /\ MatcherIdle /\ RbacInit /\ ClockInit
    /\ LenientDatabase /\ TokenInit /\ SessionInit /\ RestInit

Next ==
    \/ \E env \in SeedEnvs : SeedRbacData(env)
    \/ \E env \in Envs, name \in CustomRoleNames : CreateRole(env, name)
    \/ \E r \in roles, p \in GrantPerms, pat \in GrantPatterns :
          r.name \in CustomRoleNames /\ AddPermissionToRole(r.id, p, pat)
    \/ \E r \in roles, p \in GrantPerms, pat \in GrantPatterns :
          r.name \in CustomRoleNames /\ RemovePermissionFromRole(r.id, p, pat)
    \/ \E u \in Users, r \in roles :
          <<u, r.environment_id, r.name>> \in AssignInputs /\ AssignRole(u, r.id)
    \/ \E u \in Users, r \in roles : RemoveRole(u, r.id)
    \/ \E u \in Users, env \in Envs, p \in CheckPerms, path \in CheckPaths :
          CheckPermission(u, env, p[1], p[2], path)

Spec == Init /\ [][Next]_vars

\* ------------------------------------------------------------------------
\* The roles under creation, renaming and deletion
\* ------------------------------------------------------------------------
\* The names a role is renamed to.
UpdateNames == {"auditor"}
\* The roles that requests rename.
RenamedNames == {"viewer", "ops"}

NextRole ==
    \/ \E env \in SeedEnvs : SeedRbacData(env)
    \/ \E env \in SeedEnvs, name \in CustomRoleNames : CreateRole(env, name)
    \/ \E r \in roles, name \in UpdateNames :
          r.name \in RenamedNames /\ UpdateRole(r.id, name)
    \/ \E r \in roles, c \in BOOLEAN :
          r.name \in RenamedNames \cup UpdateNames /\ DeleteRole(r.id, c)
    \/ \E r \in roles, p \in GrantPerms :
          ~r.is_system /\ AddPermissionToRole(r.id, p, ACME_STAR)
    \/ \E u \in Users, r \in roles :
          <<u, r.environment_id, r.name>> \in AssignInputs /\ AssignRole(u, r.id)

SpecRole == Init /\ [][NextRole]_vars

\* ------------------------------------------------------------------------
\* The store under replace-all requests served side by side
\* ------------------------------------------------------------------------
\* The permission lists and the user of the replace-all requests.
ReplacePerms ==
    { <<>>,
      << <<<<"write", "topic">>, ACME_STAR>>, <<<<"read", "topic">>, None>> >> }
ReplaceUsers == {"u1"}
ReplaceRoleIds(role_id) ==
    { <<>>, <<role_id>> }
TxnCheckPerms == {<<"write", "topic">>}
TxnCheckPaths == {None, ACME_PROD_ORDERS}

NextTxn ==
    \/ \E env \in SeedEnvs : SeedRbacData(env)
    \/ \E env \in SeedEnvs, name \in CustomRoleNames : CreateRole(env, name)
    \/ \E w \in Workers, r \in roles, l \in ReplacePerms :
          ~r.is_system /\ SetRolePermissions(w, r.id, l)
    \/ \E w \in Workers, u \in ReplaceUsers, r \in roles :
          \E l \in ReplaceRoleIds(r.id) :
              ~r.is_system /\ SetUserRoles(w, u, r.environment_id, l)
    \/ \E w \in Workers : TxnDelete(w)
    \/ \E w \in Workers : TxnInsert(w)
    \/ \E w \in Workers : TxnCommit(w)
    \/ \E w \in Workers : TxnAbort(w)
    \/ \E u \in ReplaceUsers, env \in SeedEnvs, p \in TxnCheckPerms :
          \E path \in TxnCheckPaths : CheckPermission(u, env, p[1], p[2], path)

SpecTxn == Init /\ [][NextTxn]_vars

\* The store under replace-all requests served one after the other.
OneWorker == {"w1"}

NextTxnSeq ==
    \/ \E env \in SeedEnvs : SeedRbacData(env)
    \/ \E env \in SeedEnvs, name \in CustomRoleNames : CreateRole(env, name)
    \/ \E w \in OneWorker, r \in roles, l \in ReplacePerms :
          ~r.is_system /\ SetRolePermissions(w, r.id, l)
    \/ \E w \in OneWorker, u \in ReplaceUsers, r \in roles :
          \E l \in ReplaceRoleIds(r.id) :
              ~r.is_system /\ SetUserRoles(w, u, r.environment_id, l)
    \/ \E w \in OneWorker : TxnDelete(w)
    \/ \E w \in OneWorker : TxnInsert(w)
    \/ \E w \in OneWorker : TxnCommit(w)
    \/ \E w \in OneWorker : TxnAbort(w)
    \/ \E u \in ReplaceUsers, env \in SeedEnvs, p \in TxnCheckPerms :
          \E path \in TxnCheckPaths : CheckPermission(u, env, p[1], p[2], path)

SpecTxnSeq == Init /\ [][NextTxnSeq]_vars

\* ------------------------------------------------------------------------
\* The environments under requests served side by side
\* ------------------------------------------------------------------------
\* The tables the migration found: none, one or two environments.
MigratedTables == {<<>>, <<"dev">>, <<"prod", "dev">>}

InitEnv ==
    /\ MatcherIdle /\ RbacInit /\ ClockInit
    /\ LenientDatabase /\ TokenInit /\ SessionInit /\ TxnInit /\ JwtInit /\ LateInit
    /\ \E created \in MigratedTables : environments = upgrade(created)
    /\ envTxns = [w \in Workers |-> IdleEnvTxn]

NextEnv ==
    \/ \E name \in EnvNames : CreateEnvironment(name)
    \/ \E w \in Workers, name \in EnvNames : DeleteByName(w, name)
    \/ \E w \in Workers, name \in EnvNames : SetActive(w, name)
    \/ \E w \in Workers : SetActiveUpdateStarts(w)
    \/ \E w \in Workers : SetActiveUpdateRows(w)
    \/ \E w \in Workers : SetActiveFlush(w)
    \/ \E w \in Workers : SetActiveCommit(w)
    \/ \E w \in Workers : SetActiveAbort(w)

SpecEnv == InitEnv /\ [][NextEnv]_vars

\* ------------------------------------------------------------------------
\* The signing secrets under the calls of the service
\* ------------------------------------------------------------------------
NextSecret ==
    \/ \E name \in EnvNames : CreateEnvironment(name)
    \/ \E env \in EnvNames, secret_key \in SecretKeys : SetPulsarTokenSecret(env, secret_key)
    \/ \E env \in EnvNames : RemovePulsarTokenSecret(env)
    \/ \E env \in EnvNames, subject \in Subjects, days \in PulsarExpiresInDays :
          GeneratePulsarToken(env, subject, days)
    \/ \E env \in EnvNames : CanGeneratePulsarTokens(env)

\* The class Environment that the program loads has the attribute, from a
\* base class, or has it not.
InitSecret ==
    /\ MatcherIdle /\ RbacInit /\ ClockInit
    /\ LenientDatabase /\ TokenInit /\ SessionInit /\ TxnInit /\ EnvInit /\ JwtInit
    /\ hasSecretAttr \in BOOLEAN
    /\ envSecret = [n \in EnvNames |-> NoValue]
    /\ secretGiven = [n \in EnvNames |-> NoValue]
    /\ secRes = NoSecretResult
    /\ EndpointInit /\ MiddlewareInit

SpecSecret == InitSecret /\ [][NextSecret]_vars

\* ------------------------------------------------------------------------
\* The management endpoints under requests of elevated and other callers
\* ------------------------------------------------------------------------
EndpointAssignInputs == { <<"u1", "superuser">>, <<"u2", "ops">> }
EndpointSecretKeys == {"k1"}
\* The endpoints of the requests that are refused.
RefusedEndpoints == {"set_user_roles"}

\* One environment is active, and the class Environment has the attribute
\* of the secret or has it not.
InitEndpoint ==
    /\ MatcherIdle /\ RbacInit /\ ClockInit
    /\ LenientDatabase /\ TokenInit /\ SessionInit /\ TxnInit /\ JwtInit
    /\ environments = upgrade(<<"dev">>)
    /\ envTxns = [w \in Workers |-> IdleEnvTxn]
    /\ hasSecretAttr \in BOOLEAN
    /\ envSecret = [n \in EnvNames |-> NoValue]
    /\ secretGiven = [n \in EnvNames |-> NoValue]
    /\ secRes = NoSecretResult
    /\ EndpointInit /\ MiddlewareInit

NextEndpoint ==
    \/ \E env \in SeedEnvs : SeedRbacData(env)
    \/ \E u \in Users : Caller(u)
    \/ \E e \in RefusedEndpoints : Forbidden(e)
    \/ \E env \in SeedEnvs, name \in CustomRoleNames : Endpoint_create_role(env, name)
    \/ \E r \in roles, name \in UpdateNames :
          r.name \in CustomRoleNames /\ Endpoint_update_role(r.id, name)
    \/ \E r \in roles :
          r.name \in CustomRoleNames \cup UpdateNames /\ Endpoint_delete_role(r.id, TRUE)
    \/ \E r \in roles, p \in GrantPerms :
          ~r.is_system /\ Endpoint_add_permission_to_role(r.id, p, ACME_STAR)
    \/ \E r \in roles, p \in GrantPerms :
          ~r.is_system /\ Endpoint_remove_permission_from_role(r.id, p, ACME_STAR)
    \/ \E w \in OneWorker, r \in roles :
          ~r.is_system /\ Endpoint_set_role_permissions(w, r.id, <<>>)
    \/ \E u \in Users, r \in roles :
          <<u, r.name>> \in EndpointAssignInputs /\ Endpoint_assign_role_to_user(u, r.id)
    \/ \E u \in Users, r \in roles :
          <<u, r.name>> \in EndpointAssignInputs /\ Endpoint_remove_role_from_user(u, r.id)
    \/ \E w \in OneWorker, r \in roles :
          r.name = "superuser" /\ Endpoint_set_user_roles(w, "u1", r.environment_id, <<r.id>>)
    \/ \E secret_key \in EndpointSecretKeys : Endpoint_set_pulsar_token_secret(secret_key)
    \/ Endpoint_remove_pulsar_token_secret
    \/ \E w \in OneWorker : TxnDelete(w)
    \/ \E w \in OneWorker : TxnInsert(w)
    \/ \E w \in OneWorker : TxnCommit(w)

SpecEndpoint == InitEndpoint /\ [][NextEndpoint]_vars

\* ------------------------------------------------------------------------
\* The signed tokens under creation, verification and the middleware
\* ------------------------------------------------------------------------
\* Tokens that the console did not create: strings that are no JWT, a JWT
\* signed with another key, and JWTs signed with the console's key that are
\* expired, of another type, or lack a claim.
FullClaims ==
    [NoClaims EXCEPT !.sub = Some("u1"), !.exp = Some(MaxTime + 1),
                     !.iat = Some(0), !.type = Some("access")]
ForeignTokens ==
    { Opaque(FALSE), Opaque(TRUE),
      Jwt("other_key", FullClaims),
      jwt_encode([FullClaims EXCEPT !.exp = Some(0)]),
      jwt_encode([FullClaims EXCEPT !.type = Some("other")]),
      jwt_encode([FullClaims EXCEPT !.exp = NoValue]),
      jwt_encode([FullClaims EXCEPT !.iat = NoValue]),
      jwt_encode([FullClaims EXCEPT !.type = NoValue]) }
IssuedTokens == {i.token : i \in jwtIssued}
VerifyOps == {"decode_token", "verify_access_token", "verify_refresh_token"}

NextJwt ==
    \/ \E u \in JwtUsers, d \in JwtLifetimes : CreateAccessToken(u, d)
    \/ \E u \in JwtUsers, d \in JwtLifetimes : CreateRefreshToken(u, d)
    \/ \E op \in VerifyOps, t \in IssuedTokens \cup ForeignTokens : Verify(op, t)
    \/ \E t \in IssuedTokens \cup ForeignTokens : Dispatch(t)
    \/ TickTokens

SpecJwt == Init /\ [][NextJwt]_vars

\* ------------------------------------------------------------------------
\* The API tokens under their requests
\* ------------------------------------------------------------------------
\* The plaintext tokens presented for validation, and the ids and users of
\* the other requests.
PresentedTokens == {generate_api_token(n).full_token : n \in 1..tokenSerial}
                       \cup {UnknownToken}
TokenIds == 1..tokenSerial

InitTok ==
    /\ MatcherIdle /\ RbacInit /\ ClockInit
    /\ AnyDatabase /\ TokenInit /\ SessionInit /\ RestInit

NextTok ==
    \/ \E u \in TokenOwners, d \in ExpiresInDays : CreateToken(u, d)
    \/ \E tok \in PresentedTokens : ValidateToken(tok, TRUE)
    \/ \E id \in TokenIds, u \in TokenOwners : RevokeToken(id, u)
    \/ \E u \in TokenOwners : RevokeAllUserTokens(u)
    \/ \E id \in TokenIds, u \in TokenOwners : DeleteToken(id, u)
    \/ TickTokens

SpecTok == InitTok /\ [][NextTok]_vars

\* The API tokens under the requests of their owners and of other users.
NextTokCaller ==
    \/ \E u \in TokenOwners, d \in ExpiresInDays : CreateToken(u, d)
    \/ \E tok \in PresentedTokens : ValidateToken(tok, TRUE)
    \/ \E id \in TokenIds, u \in Users : RevokeToken(id, u)
    \/ \E u \in Users : RevokeAllUserTokens(u)
    \/ \E id \in TokenIds, u \in Users : DeleteToken(id, u)

SpecTokCaller == InitTok /\ [][NextTokCaller]_vars

\* The API tokens of users that are deactivated and deleted.
NextTokUser ==
    \/ \E u \in TokenOwners, d \in ExpiresInDays : CreateToken(u, d)
    \/ \E tok \in PresentedTokens, c \in BOOLEAN : ValidateToken(tok, c)
    \/ \E u \in TokenOwners : DeactivateUser(u)
    \/ \E u \in TokenOwners, c \in BOOLEAN : DeleteUser(u, c)
    \/ TickTokens

SpecTokUser == InitTok /\ [][NextTokUser]_vars

\* ------------------------------------------------------------------------
\* The sessions under their requests
\* ------------------------------------------------------------------------
InitSess ==
    /\ MatcherIdle /\ RbacInit /\ ClockInit
    /\ LenientDatabase /\ TokenInit /\ SessionInit /\ RestInit

NextSess ==
    \/ \E u \in Users, d \in SessionLifetimes : CreateSession(u, d)
    \/ \E n \in 1..sessionSerial : GetValidSession(access_token(n))
    \/ \E n \in 1..sessionSerial : RevokeSession(n)
    \/ \E u \in Users : RevokeAllUserSessions(u)
    \/ CleanupExpiredSessions
    \/ CleanupRevokedSessions
    \/ TickSessions

SpecSess == InitSess /\ [][NextSess]_vars

\* ------------------------------------------------------------------------
\* Sessions revoked, and requests that present their tokens
\* ------------------------------------------------------------------------
NextRevoke ==
    \/ \E u \in Users, d \in SessionLifetimes : CreateSession(u, d)
    \/ \E n \in 1..sessionSerial : RevokeSession(n)
    \/ \E u \in Users : RevokeAllUserSessions(u)
    \/ \E n \in 1..sessionSerial : PresentSessionToken(n)
    \/ TickSessions

SpecRevoke == InitSess /\ [][NextRevoke]_vars

\* ------------------------------------------------------------------------
\* Requests through StrictRBACMiddleware
\* ------------------------------------------------------------------------
\* The callers: none authenticated, a user with roles, the global admin.
StrictCallers == {NoValue, Some("u1"), Some("u2")}
StrictMethods == {"GET", "DELETE"}
StrictPaths == { <<"tenants">>, <<"tenants", "acme">>, <<"health">> }
StrictAssignInputs == { <<"u1", "viewer">>, <<"u1", "admin">> }

\* No environment or one active environment; rbac_enabled of the active
\* environment is true or false, or the class has no such attribute, as in
\* models/environment.py.
InitStrict ==
    /\ MatcherIdle /\ RbacInit /\ ClockInit
    /\ LenientDatabase /\ TokenInit /\ SessionInit /\ TxnInit /\ JwtInit
    /\ \E created \in {<<>>, <<"dev">>} : environments = upgrade(created)
    /\ envTxns = [w \in Workers |-> IdleEnvTxn]
    /\ SecretInit /\ EndpointInit
    /\ rbacEnabled \in {"AttributeError", "True", "False"}
    /\ sessReq = NoSessionRequest
    /\ rbacReq = NoStrictRequest
    /\ authReq = NoAuthRequest

NextStrict ==
    \/ \E env \in SeedEnvs : SeedRbacData(env)
    \/ \E u \in Users, r \in roles :
          <<u, r.name>> \in StrictAssignInputs /\ AssignRole(u, r.id)
    \/ \E u \in Users, r \in roles : RemoveRole(u, r.id)
    \/ \E user_id \in StrictCallers, method \in StrictMethods, path \in StrictPaths :
          StrictDispatch(user_id, method, path)

SpecStrict == InitStrict /\ [][NextStrict]_vars

\* ------------------------------------------------------------------------
\* Requests through AuthMiddleware
\* ------------------------------------------------------------------------
\* The credentials that requests carry: the tokens issued, an API token, a
\* string that is no token, and a signed token without exp.
HeaderTokens ==
    IssuedTokens \cup
        { Opaque(TRUE), Opaque(FALSE), jwt_encode([FullClaims EXCEPT !.exp = NoValue]) }
Bearer(token) == Some([scheme |-> "Bearer", token |-> token])
Basic == Some([scheme |-> "Basic", token |-> Opaque(FALSE)])
TENANTS == <<"api", "v1", "tenants">>

\* The requests: a credential in one of the three places, in a place that
\* another place precedes, after an Authorization header of another
\* scheme, or none; and requests to public paths.
AuthRequests ==
    UNION { { Request(TENANTS, Bearer(t), NoValue, NoValue),
              Request(TENANTS, NoValue, Some(t), NoValue),
              Request(TENANTS, NoValue, NoValue, Some(t)),
              Request(TENANTS, Bearer(Opaque(FALSE)), Some(t), Some(t)),
              Request(TENANTS, Basic, Some(Opaque(TRUE)), Some(t)),
              Request(TENANTS, Basic, NoValue, Some(t)),
              Request(<<"api", "v1", "auth", "logout">>, Bearer(t), NoValue, NoValue) }
            : t \in HeaderTokens }
        \cup { Request(TENANTS, NoValue, NoValue, NoValue),
               Request(<<"health">>, NoValue, NoValue, NoValue) }

NextAuth ==
    \/ \E u \in JwtUsers, d \in JwtLifetimes : CreateAccessToken(u, d)
    \/ \E u \in JwtUsers, d \in JwtLifetimes : CreateRefreshToken(u, d)
    \/ \E request \in AuthRequests : AuthDispatch(request)
    \/ TickTokens

SpecAuth == Init /\ [][NextAuth]_vars

\* ------------------------------------------------------------------------
\* Claims about the matcher
\* ------------------------------------------------------------------------

\* C6: for a pattern p ending in "/*" and any path r, the matcher returns
\* true iff r equals p without the trailing "/*" or r starts with that
\* prefix followed by "/".
C6_ShallowWildcard ==
    (m_pc = "done" /\ m_pattern # None /\ endswith(m_pattern, <<"/", "*">>))
        => (m_result <=>
              (\/ m_path = DropLast(m_pattern, 2)
               \/ startswith(m_path, DropLast(m_pattern, 2) \o <<"/">>)))

\* A "/*" pattern was matched against a path that only shares the prefix
\* without the separator, and was refused.
C6_Witness ==
    /\ m_pc = "done"
    /\ m_pattern = <<"a", "/", "*">>
    /\ m_path = <<"a", "a">>
    /\ m_result = FALSE

\* C7: for a pattern p ending in "/**" and any path r, the matcher returns
\* true iff r starts with p without the trailing "/**".
C7_DeepWildcard ==
    (m_pc = "done" /\ m_pattern # None /\ endswith(m_pattern, <<"/", "*", "*">>))
        => (m_result <=> startswith(m_path, DropLast(m_pattern, 3)))

\* A "/**" pattern accepted a path that continues the prefix without a
\* separator, which the "/*" rule would have refused.
C7_Witness ==
    /\ m_pc = "done"
    /\ m_pattern = <<"a", "/", "*", "*">>
    /\ m_path = <<"a", "a">>
    /\ m_result = TRUE

\* ------------------------------------------------------------------------
\* Claims about permission resolution
\* ------------------------------------------------------------------------

\* The role_permissions rows that grant (a, l) to user u through a role of
\* environment e.
GrantRows(u, e, a, l) ==
    {rp \in BagToSet(rolePerms) :
        \E ur \in userRoles, r \in roles :
            /\ ur.user_id = u
            /\ ur.role_id = r.id
            /\ r.environment_id = e
            /\ rp.role_id = r.id
            /\ rp.permission = <<a, l>>}

\* Every role_permissions row user u reaches through a role of environment e.
UserRows(u, e) ==
    {rp \in BagToSet(rolePerms) :
        \E ur \in userRoles, r \in roles :
            /\ ur.user_id = u
            /\ ur.role_id = r.id
            /\ r.environment_id = e
            /\ rp.role_id = r.id}

ChkGrantRows ==
    GrantRows(chk.user_id, chk.environment_id, chk.action, chk.resource_level)

\* C1: check_permission returns false whenever no role_permissions row
\* reachable through the user's roles in the environment has the permission
\* (action, level), whatever else the user is granted.
C1_FailClosed ==
    (chk.done /\ ChkGrantRows = {}) => chk.role_allowed = FALSE

\* The user holds grants in the environment, none of them for the queried
\* (action, level), and the check was refused.
C1_Witness ==
    /\ chk.done
    /\ ChkGrantRows = {}
    /\ UserRows(chk.user_id, chk.environment_id) # {}
    /\ chk.role_allowed = FALSE

\* C2: with a resource path, check_permission is true iff some granting row's
\* pattern matches the path; with the single grant (write, topic, "acme/*")
\* "acme/prod/orders" is allowed and "other/prod/orders" is denied.
C2_PathNeedsMatchingRow ==
    (chk.done /\ chk.resource_path # None) =>
        /\ chk.role_allowed <=>
              \E rp \in ChkGrantRows :
                  matches_resource(rp.resource_pattern, chk.resource_path)
        /\ ( /\ {<<rp.permission, rp.resource_pattern>> :
                    rp \in UserRows(chk.user_id, chk.environment_id)}
                  = {<< <<"write", "topic">>, ACME_STAR >>}
             /\ chk.action = "write"
             /\ chk.resource_level = "topic" )
           => /\ chk.resource_path = ACME_PROD_ORDERS => chk.role_allowed
              /\ chk.resource_path = OTHER_PROD_ORDERS => ~chk.role_allowed

\* The user's only grant is (write, topic, "acme/*") and the write check on
\* "other/prod/orders" was refused.
C2_Witness ==
    /\ chk.done
    /\ {<<rp.permission, rp.resource_pattern>> :
            rp \in UserRows(chk.user_id, chk.environment_id)}
          = {<< <<"write", "topic">>, ACME_STAR >>}
    /\ chk.action = "write"
    /\ chk.resource_level = "topic"
    /\ chk.resource_path = OTHER_PROD_ORDERS
    /\ chk.role_allowed = FALSE

\* C3: without a resource path, check_permission is true iff the user has at
\* least one granting row, whatever pattern the row carries.
C3_PathlessNeedsAnyRow ==
    (chk.done /\ chk.resource_path = None) =>
        (chk.role_allowed <=> ChkGrantRows # {})

\* A path-less check was allowed although every granting row is restricted
\* to a pattern.
C3_Witness ==
    /\ chk.done
    /\ chk.resource_path = None
    /\ ChkGrantRows # {}
    /\ \A rp \in ChkGrantRows : rp.resource_pattern # None
    /\ chk.role_allowed = TRUE

\* The store with every role of another environment, and the assignments
\* and grants of those roles, removed.
EnvStore(e) ==
    LET envRoles == {r \in roles : r.environment_id = e}
        envRows == {rp \in BagToSet(rolePerms) :
                        \E r \in envRoles : r.id = rp.role_id}
    IN  [permissions |-> permissions,
         roles |-> envRoles,
         rolePerms |-> [rp \in envRows |-> rolePerms[rp]],
         userRoles |-> {ur \in userRoles :
                           \E r \in envRoles : r.id = ur.role_id}]

\* C4: the result of check_permission for environment E depends only on the
\* roles of E: it is the result over the store stripped of every other
\* environment's roles, and it is false when the user holds no role of E.
C4_EnvironmentIsolation ==
    chk.done =>
        /\ chk.role_allowed =
              UserRoleRepository_check_permission(
                  EnvStore(chk.environment_id), chk.user_id,
                  chk.environment_id, chk.action, chk.resource_level,
                  chk.resource_path)
        /\ (~\E ur \in userRoles, r \in roles :
                /\ ur.user_id = chk.user_id
                /\ ur.role_id = r.id
                /\ r.environment_id = chk.environment_id)
           => ~chk.role_allowed

\* The user holds the queried permission through a role of another
\* environment only, and the check was refused.
C4_Witness ==
    /\ chk.done
    /\ \E e \in Envs \ {chk.environment_id} :
          GrantRows(chk.user_id, e, chk.action, chk.resource_level) # {}
    /\ ChkGrantRows = {}
    /\ chk.role_allowed = FALSE

HoldsOnlySeededViewer(u, e) ==
    /\ {ur.role_id : ur \in {x \in userRoles : x.user_id = u}}
          = {SystemRoleId(e, "viewer")}
    /\ \E r \in roles :
          r.id = SystemRoleId(e, "viewer") /\ r.environment_id = e /\ r.is_system
    /\ {<<rp.permission[1], rp.permission[2], rp.resource_pattern>> :
            rp \in {x \in BagToSet(rolePerms) :
                       x.role_id = SystemRoleId(e, "viewer")}}
          = DEFAULT_ROLES("viewer")

\* C8: a row whose resource_pattern is null matches every resource path, so a
\* user holding only the seeded viewer role is allowed read on any topic path
\* and denied write on it.
C8_NullPatternMatchesAll ==
    /\ \A r \in PathStrings \cup (CheckPaths \ {None}) : matches_resource(None, r)
    /\ ( /\ chk.done
         /\ chk.resource_path # None
         /\ chk.resource_level = "topic"
         /\ HoldsOnlySeededViewer(chk.user_id, chk.environment_id) )
       => /\ chk.action = "read" => chk.role_allowed
          /\ chk.action = "write" => ~chk.role_allowed

\* A user holding only the seeded viewer role was allowed to read a topic
\* path.
C8_Witness ==
    /\ chk.done
    /\ chk.resource_path = ACME_PROD_ORDERS
    /\ chk.resource_level = "topic"
    /\ chk.action = "read"
    /\ HoldsOnlySeededViewer(chk.user_id, chk.environment_id)
    /\ chk.role_allowed = TRUE

\* ------------------------------------------------------------------------
\* Claims about roles
\* ------------------------------------------------------------------------

\* The system roles.
SystemRoles == {r \in roles : r.is_system}

\* C14: no request deletes a system role or clears its is_system flag, and
\* delete_role on a system role returns false and changes no table.
C14_SystemRolesKept ==
    [][/\ \A r \in SystemRoles : \E q \in roles' : q.id = r.id /\ q.is_system
       /\ \A r \in SystemRoles, c \in BOOLEAN :
             DeleteRole(r.id, c)
             => (/\ roleRes'.ok = FALSE
                 /\ roles' = roles
                 /\ rolePerms' = rolePerms
                 /\ userRoles' = userRoles)]_vars

\* A system role was renamed, then its deletion was asked for and refused;
\* it is still there, and still a system role.
C14_Witness ==
    /\ roleRes.op = "delete"
    /\ roleRes.ok = FALSE
    /\ \E r \in SystemRoles : r.id = roleRes.role_id /\ r.name \in UpdateNames

\* C15: the store holds at most one role_permissions row for each (role,
\* permission, resource_pattern), a null pattern included, so
\* remove_permission_from_role never finds more than one row.
C15_RolePermissionUnique ==
    \A rp \in BagToSet(rolePerms) : CopiesIn(rp, rolePerms) <= 1

\* ------------------------------------------------------------------------
\* Claims about replace-all requests
\* ------------------------------------------------------------------------
\* The rows a replace-all request asked for.
RequestedRolePerms(t) ==
    IF t.op = "set_role_permissions"
    THEN {RolePermissionRow(t.role_id, t.requested[i][1], t.requested[i][2]) :
             i \in 1..Len(t.requested)}
    ELSE {}
RequestedUserRoles(t) ==
    IF t.op = "set_user_roles"
    THEN {UserRoleRow(t.user_id, t.requested[i]) : i \in 1..Len(t.requested)}
    ELSE {}

\* C16: a replace-all of a role's permissions or of a user's roles is atomic.
\* No statement of the request changes the committed store, which is all
\* that a permission check or a read of another request sees, before the
\* commit; a request that fails or is cancelled midway leaves the store with
\* exactly the rows it had; the commit removes every row the request deleted
\* and did not ask for again, and adds every row it asked for, in one step.
C16_ReplaceAllAtomic ==
    [][\A w \in Workers :
          /\ (TxnDelete(w) \/ TxnInsert(w) \/ TxnAbort(w))
                => (rolePerms' = rolePerms /\ userRoles' = userRoles)
          /\ TxnCommit(w)
                => /\ \A x \in RequestedRolePerms(txns[w]) : BagIn(x, rolePerms')
                   /\ \A x \in BagToSet(txns[w].deleted_rp) :
                         x \notin RequestedRolePerms(txns[w]) => ~BagIn(x, rolePerms')
                   /\ RequestedUserRoles(txns[w]) \subseteq userRoles'
                   /\ \A x \in txns[w].deleted_ur :
                         x \notin RequestedUserRoles(txns[w]) => x \notin userRoles']_vars

\* A permission check answered from the rows of a role while the
\* uncommitted transaction of a replace-all has deleted those rows and not
\* yet added all the rows asked for.
C16_Witness ==
    \E w \in Workers :
        /\ txns[w].op = "set_role_permissions"
        /\ txns[w].pc = "insert"
        /\ txns[w].deleted_rp # EmptyBag
        /\ txns[w].todo # <<>>
        /\ txns[w].added_rp # EmptyBag
        /\ chk.done /\ chk.role_allowed
        /\ UserRoleRow(chk.user_id, txns[w].role_id) \in userRoles

\* C17: once set_role_permissions(role, []) has committed, with no other
\* replace-all served beside it, a permission check of a user resolved
\* through that role alone returns false, with or without a resource path,
\* and the role has no row left.
C17_ClearedRoleGrantsNothing ==
    [][\A w \in Workers :
          (/\ txns[w].op = "set_role_permissions"
           /\ txns[w].requested = <<>>
           /\ TxnCommit(w))
          => LET role_id == txns[w].role_id
                 through == [permissions |-> permissions', roles |-> roles',
                             rolePerms |-> rolePerms',
                             userRoles |-> {ur \in userRoles' :
                                               ur.role_id = role_id}]
             IN  /\ RowsOfRole(rolePerms', role_id) = EmptyBag
                 /\ \A u \in Users, env \in Envs, p \in CheckPerms :
                       \A path \in CheckPaths :
                          ~UserRoleRepository_check_permission(
                               through, u, env, p[1], p[2], path)]_vars

\* A role that lost rows to a committed set_role_permissions(role, []), and a
\* check of a user holding that role that returned false afterwards.
C17_Witness ==
    /\ txnRes.op = "set_role_permissions"
    /\ txnRes.committed
    /\ txnRes.requested = <<>>
    /\ txnRes.replaced > 0
    /\ chk.done /\ ~chk.role_allowed /\ ~chk.allowed
    /\ UserRoleRow(chk.user_id, txnRes.role_id) \in userRoles

\* ------------------------------------------------------------------------
\* Claims about environments
\* ------------------------------------------------------------------------
\* C18: in every committed state of the store at most one environment has
\* is_active = true.
C18_AtMostOneActive == Cardinality(ActiveEnvironments) <= 1

\* ------------------------------------------------------------------------
\* Claims about signed tokens
\* ------------------------------------------------------------------------
RefreshTokens == {i.token : i \in {j \in jwtIssued : j.kind = "refresh"}}
AccessTokens == {i.token : i \in {j \in jwtIssued : j.kind = "access"}}

\* C19: the kinds of signed tokens are never confused. verify_access_token
\* returns None for every token that create_refresh_token produced,
\* verify_refresh_token returns None for every token that
\* create_access_token produced, and the middleware attaches no identity to
\* a request that presents a refresh token.
C19_TokenKindsNotConfused ==
    /\ \A t \in RefreshTokens :
          /\ verify_access_token(t) = Returned(NoValue)
          /\ validate_token(t) = Returned(<<NoValue, NoValue>>)
    /\ \A t \in AccessTokens : verify_refresh_token(t) = Returned(NoValue)
    /\ (authState.op = "dispatch" /\ authState.token \in RefreshTokens)
          => (authState.user_id = NoValue /\ authState.auth_type = NoValue
              /\ ~authState.raised)

\* A request that presented a refresh token which verify_refresh_token
\* accepts went through the middleware.
C19_Witness ==
    /\ authState.op = "dispatch"
    /\ authState.token \in RefreshTokens
    /\ verify_refresh_token(authState.token).value # NoValue
    /\ \E t \in AccessTokens : verify_access_token(t).value # NoValue

\* C20: no presented token is fatal. decode_token, verify_access_token and
\* the middleware return for every token, malformed, expired, wrongly
\* signed, of the wrong type or validly signed without exp, iat or type; none
\* lets an exception out.
C20_CredentialFailuresNotFatal == ~authState.raised

\* ------------------------------------------------------------------------
\* Claims about API tokens
\* ------------------------------------------------------------------------

\* The revoked tokens that are still stored.
RevokedStored == {t \in apiTokens : t.id \in revokedOk}

\* C9, first half: once revoke_token has returned True for a token, no
\* validation of that token succeeds, whatever was requested in between.
C9_RevokedNeverValidates ==
    (tokRes.op = "validate"
        /\ \E id \in revokedOk : tokRes.token = generate_api_token(id).full_token)
    => tokRes.ok = FALSE

\* C9, second half: revoking again, by its owner, a token that revoke_token
\* already revoked and that still exists returns True and changes no row.
C9_RepeatedRevokeIsNoOp ==
    \A t \in RevokedStored :
        RevokeToken(t.id, t.user_id) => (tokRes'.ok = TRUE /\ apiTokens' = apiTokens)

\* C9: revocation is monotonic and idempotent.
C9_RevocationMonotonicIdempotent ==
    [](C9_RevokedNeverValidates /\ RevokedStored \subseteq {t \in apiTokens : t.is_revoked})
    /\ [][C9_RepeatedRevokeIsNoOp]_vars

\* A token that was revoked, is still stored and has not expired was
\* presented after another token was created, and was refused.
C9_Witness ==
    /\ tokRes.op = "validate"
    /\ tokRes.ok = FALSE
    /\ tokenSerial = 2
    /\ \E t \in RevokedStored :
          /\ t.id = 1
          /\ tokRes.token = generate_api_token(t.id).full_token
          /\ t.expires_at = NoValue

\* C11: a token created with expires_in_days = 0, or with an expiry that is
\* already past, is refused when its plaintext is validated right after its
\* creation, although it is not revoked.
C11_ImmediateExpiryRejected ==
    [][\A c \in BOOLEAN :
          (/\ tokRes.op = "create"
           /\ tokRes.ok
           /\ tokRes.expires_in_days # NoValue
           /\ tokRes.expires_in_days[1] <= 0
           /\ ValidateToken(tokRes.token, c))
          => tokRes'.ok = FALSE]_vars

\* C12: a validation succeeds only for a token whose owner exists and is
\* active.
C12_InactiveUserNeverAuthenticated ==
    (tokRes.op = "validate" /\ tokRes.ok)
    => \E t \in apiTokens :
          /\ t.token_hash = hash_value(tokRes.token)
          /\ t.user_id \in DOMAIN users
          /\ users[t.user_id].is_active

\* An unrevoked, unexpired token of a deactivated user was presented and
\* refused.
C12_Witness ==
    /\ tokRes.op = "validate"
    /\ tokRes.ok = FALSE
    /\ \E t \in get_valid_token(apiTokens, hash_value(tokRes.token), now) :
          /\ t.user_id \in DOMAIN users
          /\ ~users[t.user_id].is_active

\* The stored tokens that a user does not own.
NotOwnedBy(user_id) == {t \in apiTokens : t.user_id # user_id}

\* C13: revoke_token and delete_token called by a user that does not own the
\* token return false and leave every token as it was.
C13_OnlyOwnerRevokesOrDeletes ==
    [][\A u \in Users : \A t \in NotOwnedBy(u) :
          (RevokeToken(t.id, u) \/ DeleteToken(t.id, u))
          => (tokRes'.ok = FALSE /\ apiTokens' = apiTokens)]_vars

\* A user asked to revoke a token of another user, was refused, and the
\* token is still stored and not revoked.
C13_Witness ==
    /\ tokRes.op = "revoke"
    /\ tokRes.ok = FALSE
    /\ \E t \in NotOwnedBy(tokRes.caller) :
          t.id = tokRes.token_id /\ t.is_revoked = FALSE

\* ------------------------------------------------------------------------
\* Claims about sessions
\* ------------------------------------------------------------------------

\* C10: a session is valid iff it is not revoked and now < expires_at, and
\* Session.is_valid and SessionRepository.get_valid_session agree on every
\* stored session, the instant now = expires_at included.
C10_SessionValidityAgrees ==
    \A s \in sessions :
        LET valid == ~s.is_revoked /\ now < s.expires_at
        IN  /\ Session_is_valid(s, now) = valid
            /\ (s \in get_valid_session(sessions, s.access_token_hash, now)) = valid

\* ------------------------------------------------------------------------
\* Claims: the signing secret
\* ------------------------------------------------------------------------
\* C21: while an environment has no signing key, that is before any
\* set_pulsar_token_secret returned True for it and after
\* remove_pulsar_token_secret until the next set, generate_pulsar_token
\* raises and returns no token, and can_generate_pulsar_tokens returns
\* False.
C21_NoKeyNoToken ==
    (secRes.env \in DOMAIN environments /\ secretGiven[secRes.env] = NoValue) =>
        /\ secRes.op = "generate_pulsar_token" =>
               secRes.error # "" /\ secRes.returned # "token"
        /\ secRes.op = "can_generate_pulsar_tokens" =>
               secRes.error = "" /\ secRes.returned = "False"

\* C29: once set_pulsar_token_secret returned True for an environment, for
\* any secret, the empty one included, and until remove_pulsar_token_secret
\* is called, can_generate_pulsar_tokens returns True,
\* generate_pulsar_token returns a token, and the column holds the encrypted
\* form of the secret and not the secret. Stated for a class Environment
\* that has the attribute.
C29_KeyUsableOnceSet ==
    (/\ hasSecretAttr
     /\ secRes.env \in DOMAIN environments
     /\ secretGiven[secRes.env] # NoValue) =>
        /\ secRes.op = "generate_pulsar_token" =>
               secRes.error = "" /\ secRes.returned = "token"
        /\ secRes.op = "can_generate_pulsar_tokens" =>
               secRes.error = "" /\ secRes.returned = "True"
        /\ envSecret[secRes.env] = Some(Fernet(secretGiven[secRes.env][1]))

\* ------------------------------------------------------------------------
\* Claims: the management endpoints
\* ------------------------------------------------------------------------
\* The callers that are elevated: active, and global admin or holder of the
\* superuser role.
Elevated ==
    {u \in DOMAIN users :
        /\ users[u].is_active
        /\ \/ users[u].is_global_admin
           \/ \E ur \in userRoles, r \in roles :
                 ur.user_id = u /\ r.id = ur.role_id /\ r.name = "superuser"}

\* C22: the endpoints that create, update or delete a role, add, remove or
\* replace the permissions of a role, assign, remove or replace the roles
\* of a user, or set or remove the signing secret require a superuser: a
\* step taken while the caller is not elevated, the seeding of the
\* bootstrap apart, leaves every Role, RolePermission and UserRole row and
\* the signing secret as they were.
C22_ManagementNeedsSuperuser ==
    [][(epCaller \notin Elevated /\ ~\E env \in SeedEnvs : SeedRbacData(env))
          => UNCHANGED <<roles, rolePerms, userRoles, envSecret>>]_vars

\* A caller who is not elevated was refused while roles, grants and
\* assignments exist.
C22_Witness ==
    /\ epRes.status = 403
    /\ epRes.caller = epCaller
    /\ epCaller \notin Elevated
    /\ \E r \in roles : ~r.is_system
    /\ userRoles # {}

\* ------------------------------------------------------------------------
\* Claims: the middlewares
\* ------------------------------------------------------------------------
\* C23: once revoke_session or revoke_all_user_sessions has committed, a
\* request that presents the access token of a revoked session is not
\* resolved to the identity of the session's user, although the signed
\* token has not expired.
C23_RevokedSessionNotResolved ==
    (sessReq.op = "dispatch" /\ sessReq.revoked /\ ~sessReq.expired)
        => sessReq.user_id # Some(sessReq.owner)

\* C24: a request whose method and path match an entry of
\* ROUTE_PERMISSIONS reaches the route handler only if check_permission
\* returned true for the action and level of that entry and the caller;
\* otherwise the response is 403 and the handler is not invoked.
C24_StrictBlocksWithoutPermission ==
    (rbacReq.op = "dispatch"
        /\ get_required_permission(rbacReq.method, rbacReq.path) # NoValue) =>
        IF rbacReq.checked /\ rbacReq.has_permission
        THEN rbacReq.forwarded = 1
        ELSE rbacReq.forwarded = 0 /\ rbacReq.status = 403

\* The credential of a request: the Bearer token, else the X-API-Token
\* header, else the session cookie.
Credential(request) ==
    IF request.authorization # NoValue /\ request.authorization[1].scheme = "Bearer"
    THEN Some(request.authorization[1].token)
    ELSE IF request.x_api_token # NoValue THEN request.x_api_token
    ELSE request.cookie

\* The token is a signed access token of the console, not expired at a time.
UnexpiredAccessToken(token, at) ==
    /\ token.wellformed
    /\ token.key = "jwt_secret_key"
    /\ token.claims.type = Some("access")
    /\ token.claims.exp = NoValue \/ token.claims.exp[1] > at

\* C25: AuthMiddleware forwards every request to the next handler exactly
\* once; after the dispatch of a request to a path that is not public,
\* request.state.user_id is set iff the credential of the request verifies
\* as an unexpired access token, and then it is the subject of the token
\* and auth_type is "jwt"; in every other case both are null.
C25_AuthOnlyAnnotates ==
    authReq.op = "dispatch" =>
        /\ authReq.forwarded = 1
        /\ ~is_public_path(authReq.request.path) =>
              LET credential == Credential(authReq.request)
              IN  IF credential # NoValue /\ UnexpiredAccessToken(credential[1], authReq.at)
                  THEN /\ authReq.user_id = credential[1].claims.sub
                       /\ authReq.user_id # NoValue
                       /\ authReq.auth_type = Some("jwt")
                  ELSE authReq.user_id = NoValue /\ authReq.auth_type = NoValue

\* ------------------------------------------------------------------------
\* Claims: the prefix and the last use of an API token
\* ------------------------------------------------------------------------
\* C26: the display prefix of a generated token is a prefix of the full
\* token, begins with "pc_" and fits the persisted column token_prefix,
\* which is 8 characters wide, so that create_token for an existing active
\* user always persists; the row keeps the hash and the prefix only.
C26_PrefixFitsColumn ==
    (/\ tokRes.op = "create"
     /\ tokRes.caller \in DOMAIN users
     /\ users[tokRes.caller].is_active) =>
        LET g == generate_api_token(tokRes.token_id)
        IN  /\ SubSeq(g.full_token, 1, Len(g.token_prefix)) = g.token_prefix
            /\ SubSeq(g.token_prefix, 1, 3) = <<"p", "c", "_">>
            /\ Len(g.token_prefix) <= TokenPrefixWidth
            /\ tokRes.ok

\* C27: a validate_token that returns invalid leaves every ApiToken record,
\* last_used_at included, as it was once the transaction of the request
\* has ended, by commit or by rollback.
C27_InvalidValidationWritesNothing ==
    [][\A tok \in PresentedTokens, c \in BOOLEAN :
          (ValidateToken(tok, c) /\ ~tokRes'.ok) => apiTokens' = apiTokens]_vars

\* ------------------------------------------------------------------------
\* Claims: the cleanup of sessions
\* ------------------------------------------------------------------------
\* The sessions that are valid: not revoked, and now < expires_at.
ValidSessions(rows, at) == {s \in rows : ~s.is_revoked /\ at < s.expires_at}

\* C28: a session that is valid just before cleanup_expired_sessions or
\* cleanup_revoked_sessions is still stored and still valid just after it,
\* and the cleanup returns the number of rows it deleted.
C28_CleanupKeepsValidSessions ==
    [][(CleanupExpiredSessions \/ CleanupRevokedSessions) =>
          /\ ValidSessions(sessions, now) \subseteq ValidSessions(sessions', now')
          /\ sessRes'.count = Cardinality(sessions \ sessions')]_vars

\* A cleanup of the expired sessions deleted a session and left a valid one.
C28_Witness ==
    /\ sessRes.op = "cleanup_expired"
    /\ sessRes.count = 1
    /\ ValidSessions(sessions, now) # {}

\* ------------------------------------------------------------------------
\* Claims: the two resolvers
\* ------------------------------------------------------------------------
\* The roles of an environment that are assigned to a user.
AssignedRoles(user_id, environment_id) ==
    {r \in roles :
        r.environment_id = environment_id /\ UserRoleRow(user_id, r.id) \in userRoles}

\* C30: for every store, user, environment, action, level and optional
\* path, UserRoleRepository.check_permission is true iff
\* RolePermissionRepository.check_permission is true for at least one role
\* of the environment that is assigned to the user.
C30_ResolversAgree ==
    \A u \in Users, env \in Envs, p \in CheckPerms, path \in CheckPaths :
        UserRoleRepository_check_permission(Store, u, env, p[1], p[2], path)
            <=> \E r \in AssignedRoles(u, env) :
                   RolePermissionRepository_check_permission(
                       Store, r.id, p[1], p[2], path)

\* A user with two roles in an environment is granted a path by one of
\* them and not by the other.
C30_Witness ==
    \E u \in Users, env \in Envs, p \in CheckPerms, path \in CheckPaths \ {None} :
        /\ UserRoleRepository_check_permission(Store, u, env, p[1], p[2], path)
        /\ \E r, q \in AssignedRoles(u, env) :
              /\ RolePermissionRepository_check_permission(Store, r.id, p[1], p[2], path)
              /\ ~RolePermissionRepository_check_permission(Store, q.id, p[1], p[2], path)

====
